---- MODULE Spec2Model ----
(***************************************************************************)
(* Milesage last-mile optimizer: the nearest-neighbour heuristic           *)
(* (vrp_solver.run_naive_solution), the constraint-based optimizer         *)
(* (vrp_solver.run_ortools_solution) and the feasibility relaxation        *)
(* controller (auto_config.run_vrp_with_auto_relaxation), the parameter    *)
(* advisor (auto_config.auto_configure_parameters) and the distance and    *)
(* time matrices (data_utils.build_distance_matrix, build_time_matrix).    *)
(*                                                                         *)
(* Floating-point quantities (km, minutes, demand units) are fixed-point   *)
(* integers counting 1/Scale of a unit, so that Python's int() truncation  *)
(* is a real conversion.  Python None is the value None.                   *)
(***************************************************************************)
EXTENDS Integers, Sequences, FiniteSets, TLC

VARIABLES
    df,                        \* the normalized stop table, indexed by stop position
    distance_matrix,           \* NxN distances
    time_matrix,               \* NxN travel times
    n_vehicles,                \* argument of the solvers
    vehicle_capacity,          \* argument of the solvers (None = disabled)
    max_route_duration_hours,  \* argument of the solvers (None = disabled)
    depot_time_window,         \* argument of the solvers, <<start, end>>
    first_solution_strategy,   \* argument of run_ortools_solution
    local_search_metaheuristic, \* argument of run_ortools_solution
    time_limit_seconds,        \* argument of run_ortools_solution
    pc,                        \* position of run_naive_solution
    vehicle_id,                \* run_naive_solution: loop variable
    routes,                    \* run_naive_solution: routes closed so far
    route,                     \* run_naive_solution: route under construction
    unvisited,                 \* run_naive_solution: set of unplaced customers
    current_capacity,          \* run_naive_solution: load of the current route
    current_time,              \* run_naive_solution: clock of the current route
    scan_order,                \* run_naive_solution: the order in which the last
                               \* "for next_idx in unvisited" met the stops
    naive_result,              \* value returned by run_naive_solution
    ort_pc,                    \* position of run_ortools_solution
    ort_result,                \* value returned by run_ortools_solution
    search_parameters,         \* run_ortools_solution: the search parameters it built
    config,                    \* run_vrp_with_auto_relaxation: working copy
    initial_config,            \* run_vrp_with_auto_relaxation: caller's dict
    rpc,                       \* run_vrp_with_auto_relaxation: position
    locals,                    \* run_vrp_with_auto_relaxation: original_* and loop index
    calls,                     \* arguments and result of every try_solve() so far
    returned,                  \* value returned by run_vrp_with_auto_relaxation
    advisor_df,                \* auto_configure_parameters: what it reads of its table
    advised,                   \* value returned by auto_configure_parameters
    raw_df,                    \* app: st.session_state.raw_df
    normalized_df,             \* app: st.session_state.normalized_df
    working_df_size,           \* app: st.session_state.working_df_size
    config_speed_kmh,          \* app: config['speed_kmh'], the speed slider
    run_started                \* app: arguments of the run the last script pass started

instanceVars == <<df, distance_matrix, time_matrix>>
argVars == <<n_vehicles, vehicle_capacity, max_route_duration_hours, depot_time_window,
             first_solution_strategy, local_search_metaheuristic, time_limit_seconds>>
naiveVars == <<pc, vehicle_id, routes, route, unvisited, current_capacity,
               current_time, scan_order, naive_result>>
ortVars == <<ort_pc, ort_result, search_parameters>>
relaxVars == <<config, initial_config, rpc, locals, calls, returned>>
advisorVars == <<advisor_df, advised>>
appVars == <<raw_df, normalized_df, working_df_size, config_speed_kmh, run_started>>
vars == <<instanceVars, argVars, naiveVars, ortVars, relaxVars, advisorVars, appVars>>

-----------------------------------------------------------------------------
(* Bounds of the model and representation of Python values. *)

NumStops == 3
MaxVehicles == 2
None == -1
Scale == 2

Stops == 0 .. (NumStops - 1)

\* minutes (or km, or demand units) to fixed point
Fx(x) == x * Scale

\* Python int() on a non-negative float: truncation
PyInt(x) == (x \div Scale) * Scale

NoError == "no error"

\* a table that is None (tables are indexed from 0, so it equals none of them)
NoTable == <<None>>

-----------------------------------------------------------------------------
(* The stop table, as data_utils.normalize_dataframe leaves it. *)

DepotRow ==
    [is_depot |-> TRUE, demand |-> 0, service_time |-> 0,
     earliest_time |-> None, latest_time |-> None, lat |-> 0, lon |-> 0]

\* demand 1.5 and 3.0 units, service 10.5 min, windows in minutes from midnight
CustomerKinds ==
    { [demand |-> 0, service_time |-> 0, earliest_time |-> None, latest_time |-> None],
      [demand |-> 3, service_time |-> 21, earliest_time |-> None, latest_time |-> None],
      [demand |-> Fx(3), service_time |-> 0,
       earliest_time |-> Fx(600), latest_time |-> Fx(660)],
      [demand |-> 3, service_time |-> 0,
       earliest_time |-> Fx(490), latest_time |-> Fx(500)],
      [demand |-> 0, service_time |-> 0, earliest_time |-> Fx(600), latest_time |-> None] }

\* customers lie on the depot's parallel, one or two grid steps (60 or 120 km)
\* east of it
Positions == {1, 2}

CustomerRow(k, p) ==
    [is_depot |-> FALSE, demand |-> k.demand, service_time |-> k.service_time,
     earliest_time |-> k.earliest_time, latest_time |-> k.latest_time,
     lat |-> 0, lon |-> p]

StopTables ==
    { t \in [Stops -> {DepotRow} \cup {CustomerRow(k, p) : k \in CustomerKinds, p \in Positions}] :
        /\ Cardinality({i \in Stops : t[i].is_depot}) = 1
        /\ \E i \in {0, NumStops - 1} : t[i].is_depot }

\* an integer that orders the customer rows; tables that differ only in the
\* numbering of equal-keyed customers are kept, all others are taken once
CustomerKey(row) ==
    row.lon + 4 * row.demand + 64 * row.service_time
        + 4096 * (row.earliest_time + 1) + 4096 * (row.latest_time + 1)

\* stop tables up to a renumbering of the customers
CanonicalStopTables ==
    { t \in StopTables :
        \A i, j \in Stops :
            (i < j /\ ~t[i].is_depot /\ ~t[j].is_depot) => CustomerKey(t[i]) <= CustomerKey(t[j]) }

\* the tables the relaxation controller is run on: customers with a demand or
\* a time window are 60 km from the depot, the others 60 or 120 km
RelaxStopTables ==
    { t \in CanonicalStopTables :
        \A i \in Stops :
            \/ t[i].is_depot
            \/ t[i].lon = 1
            \/ (t[i].demand = 0 /\ t[i].earliest_time = None /\ t[i].latest_time = None) }

\* tables too short to route: no row at all, or the depot alone
ShortTables == { [i \in {} |-> DepotRow], [i \in {0} |-> DepotRow] }

\* len(df)
LenDf(t) == Cardinality(DOMAIN t)

(* haversine_distance.  Latitudes and longitudes count grid steps of StepKm   *)
(* kilometres of great circle (about half a degree); the points of the model  *)
(* lie within a few steps of the depot, where, to the precision kept,         *)
(* sin(x) = x, arcsin(x) = x and cos(x) = 1 - x^2/2.  The value is in 1/100   *)
(* of the fixed-point unit.                                                   *)
StepKm == 60

\* np.sin(d/2)**2, in (half steps)^2
SinHalfSquared(d) == d * d

\* np.cos(lat), in 1/100
Cos(lat) == 100 - (lat * lat) \div 226

\* np.sqrt, truncated to the precision kept
Sqrt(x) == CHOOSE r \in 0 .. x : r * r <= x /\ (r + 1) * (r + 1) > x

\* the longitude of the first point is not subtracted
haversine_distanceMutant(lat1, lon1, lat2, lon2) ==
    LET dlat == lat2 - lat1
        dlon == lon2
        a == SinHalfSquared(dlat) * 10000 + Cos(lat1) * Cos(lat2) * SinHalfSquared(dlon)
    IN  Fx(StepKm) * Sqrt(a)

haversine_distance(lat1, lon1, lat2, lon2) ==
    LET dlat == lat2 - lat1
        dlon == lon2 - lon1
        a == SinHalfSquared(dlat) * 10000 + Cos(lat1) * Cos(lat2) * SinHalfSquared(dlon)
    IN  Fx(StepKm) * Sqrt(a)

\* storing into the float32 matrix: rounding to the nearest representable value
Float32(x) == (x + 50) \div 100

build_distance_matrix(t) ==
    [i \in DOMAIN t |-> [j \in DOMAIN t |->
        IF i # j
        THEN Float32(haversine_distance(t[i].lat, t[i].lon, t[j].lat, t[j].lon))
        ELSE 0]]

build_time_matrix(dm, speed_kmh) ==
    [i \in DOMAIN dm |-> [j \in DOMAIN dm |-> (dm[i][j] * 60) \div speed_kmh]]

SpeedKmh == 60

-----------------------------------------------------------------------------
(* Sums over sequences. *)

RECURSIVE SumSeq(_)
SumSeq(s) == IF s = <<>> THEN 0 ELSE Head(s) + SumSeq(Tail(s))

Range(s) == {s[i] : i \in 1 .. Len(s)}

\* all orders in which a Python set may be iterated
Orders(S) ==
    { o \in [1 .. Cardinality(S) -> S] : \A i, j \in 1 .. Cardinality(S) : o[i] = o[j] => i = j }

\* df['demand'].sum()
DemandSum(t) == SumSeq([i \in 1 .. LenDf(t) |-> t[i - 1].demand])

\* df[df['is_depot']].index[0]
DepotIdx(t) ==
    CHOOSE i \in DOMAIN t : t[i].is_depot /\ \A j \in DOMAIN t : t[j].is_depot => i <= j

CustomerIndices(t) == {i \in DOMAIN t : ~t[i].is_depot}

-----------------------------------------------------------------------------
(* run_naive_solution: the nearest-neighbour heuristic. *)

\* line 61 without the test of the demand column
NaiveUseCapacityMutant(capacity) == capacity # None

\* "use_capacity = vehicle_capacity is not None and df['demand'].sum() > 0"
NaiveUseCapacity(capacity) == capacity # None /\ DemandSum(df) > 0

use_capacity == NaiveUseCapacity(vehicle_capacity)

use_duration == max_route_duration_hours # None

max_duration_minutes == IF use_duration THEN max_route_duration_hours * Fx(60) ELSE None

depot_idx == DepotIdx(df)

\* "if current_capacity + demand > vehicle_capacity: continue", without the bound
CapacityExceededMutant(load, demand, capacity) == FALSE

\* "if current_capacity + demand > vehicle_capacity: continue"
CapacityExceeded(load, demand, capacity) == load + demand > capacity

\* arrival at next_idx when leaving cur_idx at time clock, after waiting for the window to open
ArrivalTime(cur_idx, clock, next_idx) ==
    LET arrival_time == clock + time_matrix[cur_idx][next_idx]
        earliest == df[next_idx].earliest_time
    IN  IF earliest # None /\ arrival_time < earliest THEN earliest ELSE arrival_time

\* lines 110-112 without the test of the maximum route duration
ReturnsTooLateMutant(return_time) == return_time > depot_time_window[2]

\* "if return_time > depot_time_window[1] or
\*     (return_time - depot_time_window[0]) > max_duration_minutes: continue"
ReturnsTooLate(return_time) ==
    \/ return_time > depot_time_window[2]
    \/ (return_time - depot_time_window[1]) > max_duration_minutes

\* the "continue" tests of the candidate loop in a call with the given vehicle
\* capacity: TRUE when no test rejects next_idx
CandidateFeasibleWith(capacity, cur_idx, next_idx) ==
    /\ NaiveUseCapacity(capacity) =>
           ~CapacityExceeded(current_capacity, df[next_idx].demand, capacity)
    /\ use_duration =>
           LET arrival_time == ArrivalTime(cur_idx, current_time, next_idx)
               latest == df[next_idx].latest_time
               departure_time == arrival_time + df[next_idx].service_time
               return_time == departure_time + time_matrix[next_idx][depot_idx]
           IN  /\ ~(latest # None /\ arrival_time > latest)
               /\ ~ReturnsTooLate(return_time)

CandidateFeasible(cur_idx, next_idx) ==
    CandidateFeasibleWith(vehicle_capacity, cur_idx, next_idx)

\* the pass with "if dist <= best_distance": a later stop at the same distance
\* replaces the candidate
RECURSIVE ScanCandidatesMutant(_, _, _, _)
ScanCandidatesMutant(order, i, cur_idx, best_next) ==
    IF i > Len(order) THEN best_next
    ELSE LET next_idx == order[i]
             dist == distance_matrix[cur_idx][next_idx]
             better == \/ best_next = None
                       \/ dist <= distance_matrix[cur_idx][best_next]
         IN  IF CandidateFeasible(cur_idx, next_idx) /\ better
             THEN ScanCandidatesMutant(order, i + 1, cur_idx, next_idx)
             ELSE ScanCandidatesMutant(order, i + 1, cur_idx, best_next)

\* "for next_idx in unvisited": one pass over the unvisited set in the given order,
\* keeping the first strictly closest feasible stop (best_next = None stands for
\* best_distance = inf)
RECURSIVE ScanCandidates(_, _, _, _)
ScanCandidates(order, i, cur_idx, best_next) ==
    IF i > Len(order) THEN best_next
    ELSE LET next_idx == order[i]
             dist == distance_matrix[cur_idx][next_idx]
             better == \/ best_next = None
                       \/ dist < distance_matrix[cur_idx][best_next]
         IN  IF CandidateFeasible(cur_idx, next_idx) /\ better
             THEN ScanCandidates(order, i + 1, cur_idx, next_idx)
             ELSE ScanCandidates(order, i + 1, cur_idx, best_next)

\* unvisited.remove(best_next) that forgets to remove
SetRemoveMutant(S, x) == S

\* unvisited.remove(best_next)
SetRemove(S, x) == S \ {x}

\* per-route metrics
\* the distance of a route without its last arc, the return to the depot
RouteDistanceMutant(r) ==
    SumSeq([i \in 1 .. (Len(r) - 2) |-> distance_matrix[r[i]][r[i + 1]]])

RouteDistance(r) == SumSeq([i \in 1 .. (Len(r) - 1) |-> distance_matrix[r[i]][r[i + 1]]])

RouteTravelTime(r) == SumSeq([i \in 1 .. (Len(r) - 1) |-> time_matrix[r[i]][r[i + 1]]])

\* route[1:-1]
Inner(r) == IF Len(r) <= 2 THEN <<>> ELSE SubSeq(r, 2, Len(r) - 1)

RouteServiceTime(r) == SumSeq([i \in 1 .. Len(Inner(r)) |-> df[Inner(r)[i]].service_time])

RouteDemand(r) == SumSeq([i \in 1 .. Len(Inner(r)) |-> df[Inner(r)[i]].demand])

\* n_stops counting the closing depot as a stop
NaiveRouteDetailMutant(vid, r) ==
    [vehicle_id |-> vid, stops |-> r,
     distance |-> RouteDistance(r),
     time |-> RouteTravelTime(r) + RouteServiceTime(r),
     demand |-> RouteDemand(r),
     n_stops |-> Len(r) - 1]

NaiveRouteDetail(vid, r) ==
    [vehicle_id |-> vid, stops |-> r,
     distance |-> RouteDistance(r),
     time |-> RouteTravelTime(r) + RouteServiceTime(r),
     demand |-> RouteDemand(r),
     n_stops |-> Len(r) - 2]

\* "total_distance += route_dist" written as an assignment
AddTotalMutant(total, x) == x

\* "total_distance += route_dist", "total_time += route_time"
AddTotal(total, x) == total + x

\* enumerate(routes, 1): the vehicles numbered from 1
EnumerateIndexMutant(i) == i

\* "for vehicle_id, route in enumerate(routes)": the vehicle_id of the i-th
\* entry of routes (sequences are indexed from 1, Python lists from 0)
EnumerateIndex(i) == i - 1

EmptyMetrics == [route_details |-> <<>>, total_distance |-> 0, total_time |-> 0]

\* "for vehicle_id, route in enumerate(routes)": skips the routes of length <= 2,
\* appends the detail of the others and adds it to the running totals
RECURSIVE NaiveMetrics(_, _, _)
NaiveMetrics(rs, i, acc) ==
    IF i > Len(rs) THEN acc
    ELSE IF Len(rs[i]) <= 2 THEN NaiveMetrics(rs, i + 1, acc)
         ELSE LET d == NaiveRouteDetail(EnumerateIndex(i), rs[i])
              IN  NaiveMetrics(rs, i + 1,
                      [route_details |-> Append(acc.route_details, d),
                       total_distance |-> AddTotal(acc.total_distance, d.distance),
                       total_time |-> AddTotal(acc.total_time, d.time)])

ErrorResult(msg) ==
    [routes |-> <<>>, total_distance |-> 0, total_time |-> 0, route_details |-> <<>>,
     n_vehicles_used |-> 0, error |-> msg]

NaiveResult(rs) ==
    LET m == NaiveMetrics(rs, 1, EmptyMetrics)
    IN  [routes |-> rs,
         total_distance |-> m.total_distance,
         total_time |-> m.total_time,
         route_details |-> m.route_details,
         n_vehicles_used |-> Cardinality({i \in 1 .. Len(rs) : Len(rs[i]) > 2}),
         error |-> NoError]

NoResult == [status |-> "pending"]

\* lines 42-64: argument check and initialisation
NaiveCall ==
    /\ pc = "call"
    /\ IF LenDf(df) < 2 \/ n_vehicles < 1
       THEN /\ naive_result' = ErrorResult("Not enough stops or vehicles to build routes.")
            /\ pc' = "done"
            /\ UNCHANGED <<routes, unvisited>>
       ELSE /\ routes' = <<>>
            /\ unvisited' = CustomerIndices(df)
            /\ pc' = "for"
            /\ UNCHANGED naive_result
    /\ vehicle_id' = 0
    /\ UNCHANGED <<route, current_capacity, current_time, scan_order>>
    /\ UNCHANGED <<instanceVars, argVars, ortVars, relaxVars, advisorVars, appVars>>

\* lines 66-73: next vehicle, or the end of the vehicle loop
NaiveNextVehicle ==
    /\ pc = "for"
    /\ IF vehicle_id >= n_vehicles \/ unvisited = {}
       THEN /\ pc' = "metrics"
            /\ UNCHANGED <<route, current_capacity, current_time>>
       ELSE /\ route' = <<depot_idx>>
            /\ current_capacity' = 0
            /\ current_time' = depot_time_window[1]
            /\ pc' = "while"
    /\ UNCHANGED <<vehicle_id, routes, unvisited, scan_order, naive_result>>
    /\ UNCHANGED <<instanceVars, argVars, ortVars, relaxVars, advisorVars, appVars>>

\* lines 75-140: one iteration of "while unvisited" that finds a feasible stop
NaiveInsert ==
    /\ pc = "while"
    /\ unvisited # {}
    /\ \E order \in Orders(unvisited) :
         LET current_idx == route[Len(route)]
             best_next == ScanCandidates(order, 1, current_idx, None)
         IN  /\ best_next # None
             /\ scan_order' = order
             /\ route' = Append(route, best_next)
             /\ unvisited' = SetRemove(unvisited, best_next)
             /\ current_capacity' =
                    IF use_capacity THEN current_capacity + df[best_next].demand
                    ELSE current_capacity
             /\ current_time' =
                    IF use_duration
                    THEN ArrivalTime(current_idx, current_time, best_next)
                             + df[best_next].service_time
                    ELSE current_time
    /\ UNCHANGED <<pc, vehicle_id, routes, naive_result>>
    /\ UNCHANGED <<instanceVars, argVars, ortVars, relaxVars, advisorVars, appVars>>

\* lines 75, 120-121, 142-144: the while loop ends and the route returns to the depot
NaiveCloseRoute ==
    /\ pc = "while"
    /\ \/ unvisited = {}
       \/ \E order \in Orders(unvisited) :
            ScanCandidates(order, 1, route[Len(route)], None) = None
    /\ routes' = Append(routes, Append(route, depot_idx))
    /\ vehicle_id' = vehicle_id + 1
    /\ pc' = "for"
    /\ scan_order' = <<>>
    /\ UNCHANGED <<route, unvisited, current_capacity, current_time, naive_result>>
    /\ UNCHANGED <<instanceVars, argVars, ortVars, relaxVars, advisorVars, appVars>>

\* lines 146-186: metrics and the returned dictionary
NaiveReturn ==
    /\ pc = "metrics"
    /\ naive_result' = NaiveResult(routes)
    /\ pc' = "done"
    /\ UNCHANGED <<vehicle_id, routes, route, unvisited, current_capacity, current_time,
                   scan_order>>
    /\ UNCHANGED <<instanceVars, argVars, ortVars, relaxVars, advisorVars, appVars>>

\* disabled, 2.0 units, 5.0 units
CapacityValues == {None, Fx(2), Fx(5)}

DurationValues == {None, 2, 9}

DepotWindows == {<<Fx(480), Fx(1080)>>}

InitInstance(tables) ==
    /\ df \in tables
    /\ distance_matrix = build_distance_matrix(df)
    /\ time_matrix = build_time_matrix(distance_matrix, SpeedKmh)

InitNaiveIdle ==
    /\ pc = "idle"
    /\ vehicle_id = 0
    /\ routes = <<>>
    /\ route = <<>>
    /\ unvisited = {}
    /\ current_capacity = 0
    /\ current_time = 0
    /\ scan_order = <<>>
    /\ naive_result = NoResult

\* the defaults of run_ortools_solution's search arguments
InitSearchDefaults ==
    /\ first_solution_strategy = "PATH_CHEAPEST_ARC"
    /\ local_search_metaheuristic = "GUIDED_LOCAL_SEARCH"
    /\ time_limit_seconds = 30

InitOrtIdle ==
    /\ ort_pc = "idle"
    /\ ort_result = NoResult
    /\ search_parameters = NoResult

InitAdvisorIdle ==
    /\ advisor_df = NoResult
    /\ advised = NoResult

\* the session state of the application before any data is loaded
InitAppIdle ==
    /\ raw_df = NoTable
    /\ normalized_df = NoTable
    /\ working_df_size = None
    /\ config_speed_kmh = SpeedKmh
    /\ run_started = NoResult

InitRelaxIdle ==
    /\ config = NoResult
    /\ initial_config = NoResult
    /\ rpc = "idle"
    /\ locals = NoResult
    /\ calls = <<>>
    /\ returned = NoResult

InitNaiveWith(tables, durations, windows) ==
    /\ InitInstance(tables)
    /\ n_vehicles \in 0 .. MaxVehicles
    /\ vehicle_capacity \in CapacityValues
    /\ max_route_duration_hours \in durations
    /\ depot_time_window \in windows
    /\ pc = "call"
    /\ vehicle_id = 0
    /\ routes = <<>>
    /\ route = <<>>
    /\ unvisited = {}
    /\ current_capacity = 0
    /\ current_time = 0
    /\ scan_order = <<>>
    /\ naive_result = NoResult
    /\ InitSearchDefaults
    /\ InitOrtIdle
    /\ InitRelaxIdle
    /\ InitAdvisorIdle
    /\ InitAppIdle

InitNaiveOn(tables) == InitNaiveWith(tables, DurationValues, DepotWindows)

InitNaive == InitNaiveOn(StopTables)

NextNaive ==
    \/ NaiveCall
    \/ NaiveNextVehicle
    \/ NaiveInsert
    \/ NaiveCloseRoute
    \/ NaiveReturn

SpecNaive == InitNaive /\ [][NextNaive]_vars

\* tables of every length, a table standing for its renumberings
InitNaiveFair == InitNaiveOn(CanonicalStopTables \cup ShortTables)

\* run_naive_solution is one sequential call: the interpreter executes the
\* next statement whenever there is one, so a step that stays possible is taken
SpecNaiveFair == InitNaiveFair /\ [][NextNaive]_vars /\ WF_vars(NextNaive)

\* a depot that closes at 11:00 as well as the one that closes at 18:00: the
\* closing time ends a route before a cap of 9 hours does
ShortDepotWindows == {<<Fx(480), Fx(660)>>, <<Fx(480), Fx(1080)>>}

\* the calls that configure a maximum route duration
InitNaiveDuration ==
    InitNaiveWith(CanonicalStopTables, DurationValues \ {None}, ShortDepotWindows)

SpecNaiveDuration == InitNaiveDuration /\ [][NextNaive]_vars

-----------------------------------------------------------------------------
(* run_ortools_solution.  The routing library is a constraint solver: every
   customer is visited by exactly one vehicle, the dimensions bound the
   cumulative values, and a search within the time limit returns some
   assignment that satisfies them, or none. *)

\* use_capacity, line 256
OrtUseCapacity(capacity) == capacity # None /\ DemandSum(df) > 0

\* use_time_windows, line 272: read from the stop table
OrtUseTimeWindows ==
    \E i \in DOMAIN df : df[i].earliest_time # None \/ df[i].latest_time # None

\* use_time, lines 273-274
OrtUseTime(duration_hours) == OrtUseTimeWindows \/ duration_hours # None

\* max_route_duration, line 277
OrtMaxRouteDuration(duration_hours) ==
    IF duration_hours # None THEN PyInt(duration_hours * Fx(60)) ELSE Fx(999999)

\* demand_callback, lines 258-260
demand_callback(from_node) == PyInt(df[from_node].demand)

\* time_callback, lines 279-284
time_callback(from_node, to_node) ==
    PyInt(time_matrix[from_node][to_node]) + PyInt(df[from_node].service_time)

\* the node sequence of a vehicle: start depot, its customers, end depot
VehicleRoute(path) == <<depot_idx>> \o path \o <<depot_idx>>

\* Capacity dimension, lines 263-269: the cumulative value starts at zero, grows
\* by demand_callback of the node left (no slack) and stays within
\* [0, int(vehicle_capacity)] at every node
RECURSIVE CapacityCumul(_, _)
CapacityCumul(r, k) ==
    IF k = 1 THEN 0 ELSE CapacityCumul(r, k - 1) + demand_callback(r[k - 1])

CapacityDimensionOK(r, capacity) ==
    \A k \in 1 .. Len(r) : CapacityCumul(r, k) <= PyInt(capacity)

\* bounds of the Time cumulative variable at position k of a route, lines 298-320
TimeMin(r, k, window) ==
    IF k = 1 \/ k = Len(r) THEN window[1]
    ELSE IF df[r[k]].earliest_time # None THEN df[r[k]].earliest_time ELSE 0

TimeMax(r, k, window, max_route_duration) ==
    LET node_max == IF k = 1 \/ k = Len(r) THEN window[2]
                    ELSE IF df[r[k]].latest_time # None THEN df[r[k]].latest_time
                         ELSE max_route_duration
    IN  IF node_max < max_route_duration THEN node_max ELSE max_route_duration

\* smallest value the Time cumulative variable can take at position k: the
\* previous one plus the transit, raised to the node's minimum (slack is waiting)
RECURSIVE TimeCumul(_, _, _)
TimeCumul(r, k, window) ==
    LET lower == TimeMin(r, k, window)
        reach == IF k = 1 THEN 0 ELSE TimeCumul(r, k - 1, window) + time_callback(r[k - 1], r[k])
    IN  IF reach < lower THEN lower ELSE reach

\* Time dimension, lines 288-320
TimeDimensionOK(r, duration_hours, window) ==
    \A k \in 1 .. Len(r) :
        TimeCumul(r, k, window) <= TimeMax(r, k, window, OrtMaxRouteDuration(duration_hours))

\* the sequences without repetition over the subsets of a set of customers
PathsOver(S) == UNION {Orders(T) : T \in SUBSET S}

\* all ways to hand every customer of rem to exactly one of nv vehicles, in order
RECURSIVE Assignments(_, _)
Assignments(nv, rem) ==
    IF nv = 0 THEN (IF rem = {} THEN {<<>>} ELSE {})
    ELSE UNION { {<<path>> \o rest : rest \in Assignments(nv - 1, rem \ Range(path))} :
                 path \in PathsOver(rem) }

\* the assignments the routing model accepts, lines 243-320
FeasibleAssignments(nv, capacity, duration_hours, window) ==
    { a \in Assignments(nv, CustomerIndices(df)) :
        \A v \in 1 .. nv :
            /\ OrtUseCapacity(capacity) => CapacityDimensionOK(VehicleRoute(a[v]), capacity)
            /\ OrtUseTime(duration_hours) =>
                   TimeDimensionOK(VehicleRoute(a[v]), duration_hours, window) }

\* lines 378-386: the walk from Start to End adds the arc to the next index only
\* when that index is not the End, so the arc into the end depot is not added
OrtArcs(r) == 1 .. (Len(r) - 2)

OrtRouteDetail(vid, r) ==
    [vehicle_id |-> vid, stops |-> r,
     distance |-> SumSeq([i \in OrtArcs(r) |-> distance_matrix[r[i]][r[i + 1]]]),
     time |-> SumSeq([i \in OrtArcs(r) |-> time_matrix[r[i]][r[i + 1]]])
                  + RouteServiceTime(r),
     demand |-> RouteDemand(r),
     n_stops |-> Len(r) - 2]

EmptyExtract == [routes |-> <<>>, route_details |-> <<>>, total_distance |-> 0, total_time |-> 0]

\* lines 371-408: "for vehicle_id in range(n_vehicles)", keeping the non-empty routes
RECURSIVE OrtExtract(_, _, _)
OrtExtract(a, v, acc) ==
    IF v > Len(a) THEN acc
    ELSE LET r == VehicleRoute(a[v])
             d == OrtRouteDetail(v - 1, r)
         IN  IF Len(r) > 2
             THEN OrtExtract(a, v + 1,
                      [routes |-> Append(acc.routes, r),
                       route_details |-> Append(acc.route_details, d),
                       total_distance |-> AddTotal(acc.total_distance, d.distance),
                       total_time |-> AddTotal(acc.total_time, d.time)])
             ELSE OrtExtract(a, v + 1, acc)

\* lines 410-416
OrtSolutionResult(a) ==
    LET x == OrtExtract(a, 1, EmptyExtract)
    IN  [routes |-> x.routes,
         total_distance |-> x.total_distance,
         total_time |-> x.total_time,
         route_details |-> x.route_details,
         n_vehicles_used |-> Len(x.routes),
         error |-> NoError]

\* every value run_ortools_solution can return for the given arguments
StrategyNames ==
    {"PATH_CHEAPEST_ARC", "PATH_MOST_CONSTRAINED_ARC", "SAVINGS", "SWEEP", "CHRISTOFIDES"}

MetaheuristicNames == {"GUIDED_LOCAL_SEARCH", "TABU_SEARCH", "SIMULATED_ANNEALING"}

\* the tag selects a metaheuristic: it is neither empty nor 'None'
MetaheuristicSelected(tag) == tag # "" /\ tag # "None"

\* the search parameters handed to SolveWithParameters; a field the function
\* does not assign keeps the default of DefaultRoutingSearchParameters():
\* metaheuristic "AUTOMATIC", and no time limit (None)
SearchParameters(strategy, tag, limit) ==
    [first_solution_strategy |->
         IF strategy \in StrategyNames THEN strategy ELSE "PATH_CHEAPEST_ARC",
     local_search_metaheuristic |->
         IF MetaheuristicSelected(tag)
         THEN IF tag \in MetaheuristicNames THEN tag ELSE "GUIDED_LOCAL_SEARCH"
         ELSE "AUTOMATIC",
     time_limit_seconds |-> IF MetaheuristicSelected(tag) THEN limit ELSE None]

\* the vehicle count is not validated
OrtEarlyErrorMutant(nv) ==
    IF LenDf(df) < 2 THEN "Not enough stops to build a route."
    ELSE NoError

\* the validation of the arguments: the message of the early return, or NoError
OrtEarlyError(nv) ==
    IF LenDf(df) < 2 THEN "Not enough stops to build a route."
    ELSE IF nv < 1 THEN "Number of vehicles must be at least 1."
    ELSE NoError

OrtoolsOutcomes(nv, capacity, duration_hours, window) ==
    IF OrtEarlyError(nv) # NoError THEN {ErrorResult(OrtEarlyError(nv))}
    ELSE {ErrorResult("No feasible solution found with current constraints")}
         \cup {OrtSolutionResult(a) :
                   a \in FeasibleAssignments(nv, capacity, duration_hours, window)}

\* run_ortools_solution, called with the arguments of the model
OrtoolsRun ==
    /\ ort_pc = "call"
    /\ ort_result' \in OrtoolsOutcomes(n_vehicles, vehicle_capacity,
                                       max_route_duration_hours, depot_time_window)
    /\ search_parameters' =
           IF OrtEarlyError(n_vehicles) # NoError THEN search_parameters
           ELSE SearchParameters(first_solution_strategy, local_search_metaheuristic,
                                 time_limit_seconds)
    /\ ort_pc' = "done"
    /\ UNCHANGED <<instanceVars, argVars, naiveVars, relaxVars, advisorVars, appVars>>

-----------------------------------------------------------------------------
(* Properties of run_naive_solution. *)

NaiveDone == pc = "done" /\ naive_result.error = NoError

\* the positions of the intermediate elements of a route
InnerPositions(r) == 2 .. (Len(r) - 1)

\* C1: every route returned by run_naive_solution starts and ends at the depot
\* index, its intermediate elements are non-depot stops, and no non-depot stop
\* appears twice, neither within a route nor across the routes of the result.
C1_RoutesDepotToDepotNoDuplicates ==
    NaiveDone =>
        LET rs == naive_result.routes
        IN  /\ \A i \in 1 .. Len(rs) :
                  /\ Len(rs[i]) >= 2
                  /\ rs[i][1] = depot_idx
                  /\ rs[i][Len(rs[i])] = depot_idx
                  /\ \A k \in InnerPositions(rs[i]) : rs[i][k] \in CustomerIndices(df)
            /\ \A i, j \in 1 .. Len(rs) :
                  \A k \in InnerPositions(rs[i]), l \in InnerPositions(rs[j]) :
                      rs[i][k] = rs[j][l] => (i = j /\ k = l)

\* a result with two used routes, the first of them with two customers
C1_Witness ==
    /\ NaiveDone
    /\ Len(naive_result.routes) = 2
    /\ \A i \in 1 .. 2 : Len(naive_result.routes[i]) > 2

\* demand carried by the stops of a sequence of stop indices
LoadOf(stops) == SumSeq([i \in 1 .. Len(stops) |-> df[stops[i]].demand])

\* C6: when capacity is enforced, the demand of the stops of every route is at
\* most the vehicle capacity, after every insertion (the route under
\* construction included) and in the returned result.
C6_NaiveCapacityRespected ==
    use_capacity =>
        /\ pc = "while" => LoadOf(Tail(route)) <= vehicle_capacity
        /\ \A i \in 1 .. Len(routes) : LoadOf(Inner(routes[i])) <= vehicle_capacity
        /\ NaiveDone =>
               \A i \in 1 .. Len(naive_result.route_details) :
                   naive_result.route_details[i].demand <= vehicle_capacity

\* capacity is enforced, a stop was inserted, and another one did not fit any more
C6_Witness ==
    /\ use_capacity
    /\ pc = "while"
    /\ Len(route) >= 2
    /\ \E s \in unvisited : current_capacity + df[s].demand > vehicle_capacity

\* the clock of the claim: it starts at depot opening, advances by travel and
\* service times and is raised to a stop's earliest time on an early arrival
RECURSIVE ClockArrival(_, _)
ClockArrival(r, k) ==
    LET departed == IF k = 2 THEN depot_time_window[1]
                    ELSE ClockArrival(r, k - 1) + df[r[k - 1]].service_time
    IN  ArrivalTime(r[k - 1], departed, r[k])

InsideWindow(r, k) ==
    LET earliest == df[r[k]].earliest_time
        latest == df[r[k]].latest_time
    IN  (earliest # None /\ latest # None) =>
            (earliest <= ClockArrival(r, k) /\ ClockArrival(r, k) <= latest)

\* C8: every stop placed on a route that has both an earliest and a latest time
\* is reached within [earliest, latest], whether or not a maximum route
\* duration is configured.
C8_NaiveArrivalInsideWindow ==
    \A i \in 1 .. Len(routes) : \A k \in InnerPositions(routes[i]) : InsideWindow(routes[i], k)

\* the same statement for the calls that configure a maximum route duration
C8_HoldsWithDuration == use_duration => C8_NaiveArrivalInsideWindow

-----------------------------------------------------------------------------
(* Properties of run_ortools_solution and of the results of both solvers. *)

OrtDone == ort_pc = "done" /\ ort_result.error = NoError

\* C7: when capacity is enforced, the reported demand of every route of a
\* returned optimizer solution is at most the configured vehicle capacity, for
\* non-integer demands and capacities too.
C7_OrtoolsReportedDemandWithinCapacity ==
    (OrtDone /\ OrtUseCapacity(vehicle_capacity)) =>
        \A i \in 1 .. Len(ort_result.route_details) :
            ort_result.route_details[i].demand <= vehicle_capacity

\* the same bound on the truncated demands, which is what the dimension enforces
C7_TruncatedDemandWithinCapacity ==
    (OrtDone /\ OrtUseCapacity(vehicle_capacity)) =>
        \A i \in 1 .. Len(ort_result.routes) :
            SumSeq([k \in 1 .. Len(Inner(ort_result.routes[i])) |->
                       demand_callback(Inner(ort_result.routes[i])[k])])
                <= PyInt(vehicle_capacity)

SumDistances(details) == SumSeq([i \in 1 .. Len(details) |-> details[i].distance])

SumTimes(details) == SumSeq([i \in 1 .. Len(details) |-> details[i].time])

TotalsMatchDetails(result) ==
    /\ result.total_distance = SumDistances(result.route_details)
    /\ result.total_time = SumTimes(result.route_details)

\* C9: in every result of run_naive_solution and every successful result of
\* run_ortools_solution, total_distance is the sum of the 'distance' fields of
\* route_details and total_time the sum of their 'time' fields.
C9_TotalsAreSumsOfRouteDetails ==
    /\ pc = "done" => TotalsMatchDetails(naive_result)
    /\ OrtDone => TotalsMatchDetails(ort_result)

\* both solvers returned a solution with two used routes
C9_Witness ==
    /\ NaiveDone
    /\ Len(naive_result.route_details) = 2
    /\ OrtDone
    /\ Len(ort_result.route_details) = 2
    /\ ort_result.total_distance > 0

\* C10: for every route [depot, s1, ..., sk, depot] reported by the optimizer,
\* the reported distance is the sum of distance_matrix over all consecutive
\* pairs (the return to the depot included) and the reported time the sum of
\* time_matrix over the same pairs plus the service times of s1..sk, which is
\* the accounting of run_naive_solution.
C10_OrtoolsRouteAccountingAsNaive ==
    OrtDone =>
        \A i \in 1 .. Len(ort_result.route_details) :
            LET d == ort_result.route_details[i]
            IN  /\ d.distance = RouteDistance(d.stops)
                /\ d.time = RouteTravelTime(d.stops) + RouteServiceTime(d.stops)
                /\ d = NaiveRouteDetail(d.vehicle_id, d.stops)

-----------------------------------------------------------------------------
(* Both solvers on the same arguments, the heuristic first, as the hosting
   application and the comparison of the two solutions run them. *)

OrtDurationValues == {None, 10, 12}

InitSolversOn(tables) ==
    /\ InitInstance(tables)
    /\ n_vehicles \in 0 .. MaxVehicles
    /\ vehicle_capacity \in CapacityValues
    /\ max_route_duration_hours \in OrtDurationValues
    /\ depot_time_window \in DepotWindows
    /\ pc = "call"
    /\ vehicle_id = 0
    /\ routes = <<>>
    /\ route = <<>>
    /\ unvisited = {}
    /\ current_capacity = 0
    /\ current_time = 0
    /\ scan_order = <<>>
    /\ naive_result = NoResult
    /\ ort_pc = "wait"
    /\ ort_result = NoResult
    /\ search_parameters = NoResult
    /\ InitSearchDefaults
    /\ InitRelaxIdle
    /\ InitAdvisorIdle
    /\ InitAppIdle

InitSolvers == InitSolversOn(CanonicalStopTables \cup ShortTables)

\* the optimizer starts when the heuristic has returned
OrtoolsStart ==
    /\ ort_pc = "wait"
    /\ pc = "done"
    /\ ort_pc' = "call"
    /\ UNCHANGED <<ort_result, search_parameters>>
    /\ UNCHANGED <<instanceVars, argVars, naiveVars, relaxVars, advisorVars, appVars>>

NextSolvers ==
    \/ NextNaive
    \/ OrtoolsStart
    \/ OrtoolsRun

SpecSolvers == InitSolvers /\ [][NextSolvers]_vars

-----------------------------------------------------------------------------
(* run_vrp_with_auto_relaxation: the retry ladder over the optimizer. *)

\* the fifth argument of try_solve, line 133
EffectiveCapacity(cfg) == IF cfg.use_capacity THEN cfg.vehicle_capacity ELSE None

\* whether the optimizer constrains the customers' time windows: it reads the
\* stop table (vrp_solver lines 272-313), no argument of try_solve switches it
OrtWindowsEnforced(duration_hours) == OrtUseTime(duration_hours) /\ OrtUseTimeWindows

\* try_solve, lines 127-139: the values run_ortools_func can return
TrySolve(cfg) ==
    OrtoolsOutcomes(cfg.n_vehicles, EffectiveCapacity(cfg),
                    cfg.max_route_duration_hours, cfg.depot_time_window)

\* what one try_solve() passed to the optimizer and what it got back
CallRecord(stage, cfg, solution) ==
    [stage |-> stage,
     n_vehicles |-> cfg.n_vehicles,
     vehicle_capacity |-> EffectiveCapacity(cfg),
     max_route_duration_hours |-> cfg.max_route_duration_hours,
     depot_time_window |-> cfg.depot_time_window,
     first_solution_strategy |-> cfg.first_solution_strategy,
     local_search_metaheuristic |-> cfg.local_search_metaheuristic,
     time_limit_seconds |-> cfg.time_limit_seconds,
     capacity_enforced |-> OrtUseCapacity(EffectiveCapacity(cfg)),
     time_windows_enforced |-> OrtWindowsEnforced(cfg.max_route_duration_hours),
     config |-> cfg,
     solution |-> solution]

\* "if 'error' not in solution" that never sees a success
SucceededMutant(solution) == FALSE

\* "if 'error' not in solution"
Succeeded(solution) == solution.error = NoError

\* the factors 1.5, 2.0, 3.0 of line 149, as fractions
CapacityFactors == << <<3, 2>>, <<2, 1>>, <<3, 1>> >>

\* the extra hours of line 169, with one attempt more
ExtraHoursMutant == <<2, 4, 6, 8>>

\* the extra hours of line 169
ExtraHours == <<2, 4, 6>>

\* original_capacity * factor
TimesFactor(x, factor) == (x * factor[1]) \div factor[2]

Min(a, b) == IF a < b THEN a ELSE b

\* lines 170-173 with the extra hours subtracted from the duration
ExtendHoursMutant(cfg, original_max_hours, original_close_hour, depot_open, extra_hours) ==
    LET new_close_hour == Min(23, original_close_hour + extra_hours)
    IN  [cfg EXCEPT !.max_route_duration_hours = original_max_hours - extra_hours,
                    !.depot_close_hour = new_close_hour,
                    !.depot_time_window = <<Fx(depot_open * 60), Fx(new_close_hour * 60)>>]

\* lines 170-173 (and 189-191 with extra_hours = 6)
ExtendHours(cfg, original_max_hours, original_close_hour, depot_open, extra_hours) ==
    LET new_close_hour == Min(23, original_close_hour + extra_hours)
    IN  [cfg EXCEPT !.max_route_duration_hours = original_max_hours + extra_hours,
                    !.depot_close_hour = new_close_hour,
                    !.depot_time_window = <<Fx(depot_open * 60), Fx(new_close_hour * 60)>>]

\* relaxation_info of a call that needed no relaxation (Python None)
NoRelaxation == [is_none |-> TRUE]

\* a return statement whose third element is always None
ReturnMutant(solution, cfg, info) ==
    [solution |-> solution, config |-> cfg, relaxation_info |-> NoRelaxation]

Return(solution, cfg, info) ==
    [solution |-> solution, config |-> cfg, relaxation_info |-> info]

\* lines 165-167
DurationLocals(cfg, original_capacity) ==
    [original_capacity |-> original_capacity,
     original_max_hours |-> cfg.max_route_duration_hours,
     original_close_hour |-> cfg.depot_close_hour,
     depot_open |-> cfg.depot_open_hour,
     i |-> 1]

\* "if config.get('use_capacity', False) and config.get('vehicle_capacity')", line 147
CapacityInUse(cfg) ==
    cfg.use_capacity /\ cfg.vehicle_capacity # None /\ cfg.vehicle_capacity # 0

\* the capacity stage left without line 162
ResetCapacityMutant(cfg, original_capacity) == cfg

\* lines 161-162: "Reset capacity for next step"
ResetCapacity(cfg, original_capacity) == [cfg EXCEPT !.vehicle_capacity = original_capacity]

\* the last resort with one vehicle more
DisableConstraintsMutant(cfg) ==
    [cfg EXCEPT !.use_capacity = FALSE, !.use_time_windows = FALSE,
                !.n_vehicles = cfg.n_vehicles + 1]

\* lines 187-188: "config['use_capacity'] = False; config['use_time_windows'] = False"
DisableConstraints(cfg) == [cfg EXCEPT !.use_capacity = FALSE, !.use_time_windows = FALSE]

\* lines 193-205 reporting a failure whatever the last attempt returned
FinalInfoMutant(solution, cfg) == [relaxed |-> FALSE, all_failed |-> TRUE]

\* lines 193-205: the relaxation_info returned after the last attempt
FinalInfo(solution, cfg) ==
    IF Succeeded(solution)
    THEN [relaxed |-> TRUE, capacity_disabled |-> TRUE, time_windows_disabled |-> TRUE,
          max_route_hours |-> cfg.max_route_duration_hours,
          depot_close_hour |-> cfg.depot_close_hour]
    ELSE [relaxed |-> FALSE, all_failed |-> TRUE]

\* "config = initial_config": the working dictionary is the caller's own
CallerDictMutant(caller, working) == working

\* the caller's dictionary after an assignment to a key of the working one:
\* line 123 made the working dictionary a copy (its values are numbers, strings
\* and tuples, which no statement changes in place), so the caller's is as before
CallerDict(caller, working) == caller

\* lines 122-124: the working copy
RelaxCall ==
    /\ rpc = "call"
    /\ config' = initial_config
    /\ rpc' = "first"
    /\ initial_config' = CallerDict(initial_config, config')
    /\ UNCHANGED <<locals, calls, returned>>
    /\ UNCHANGED <<instanceVars, argVars, naiveVars, ortVars, advisorVars, appVars>>

\* lines 141-148 (and 165-167 when the capacity stage is skipped)
RelaxFirstAttempt ==
    /\ rpc = "first"
    /\ \E solution \in TrySolve(config) :
         /\ calls' = Append(calls, CallRecord("first", config, solution))
         /\ IF Succeeded(solution)
            THEN /\ returned' = Return(solution, config, NoRelaxation)
                 /\ rpc' = "returned"
                 /\ UNCHANGED locals
            ELSE /\ UNCHANGED returned
                 /\ IF CapacityInUse(config)
                    THEN /\ rpc' = "capacity"
                         /\ locals' = [original_capacity |-> config.vehicle_capacity, i |-> 1]
                    ELSE /\ rpc' = "duration"
                         /\ locals' = DurationLocals(config, None)
    /\ UNCHANGED <<config, initial_config>>
    /\ UNCHANGED <<instanceVars, argVars, naiveVars, ortVars, advisorVars, appVars>>

\* lines 149-162: one iteration of the factor loop; after the last failure the
\* capacity is reset and lines 165-167 read the originals of the next stage
RelaxCapacityAttempt ==
    /\ rpc = "capacity"
    /\ LET factor == CapacityFactors[locals.i]
           cfg == [config EXCEPT
                      !.vehicle_capacity = TimesFactor(locals.original_capacity, factor)]
       IN  \E solution \in TrySolve(cfg) :
             /\ calls' = Append(calls, CallRecord("capacity", cfg, solution))
             /\ IF Succeeded(solution)
                THEN /\ config' = cfg
                     /\ returned' = Return(solution, cfg,
                            [relaxed |-> TRUE, capacity_factor |-> factor,
                             new_capacity |-> cfg.vehicle_capacity,
                             max_route_hours |-> cfg.max_route_duration_hours])
                     /\ rpc' = "returned"
                     /\ UNCHANGED locals
                ELSE /\ UNCHANGED returned
                     /\ IF locals.i < Len(CapacityFactors)
                        THEN /\ config' = cfg
                             /\ locals' = [locals EXCEPT !.i = locals.i + 1]
                             /\ UNCHANGED rpc
                        ELSE /\ config' = ResetCapacity(cfg, locals.original_capacity)
                             /\ locals' = DurationLocals(cfg, locals.original_capacity)
                             /\ rpc' = "duration"
    /\ initial_config' = CallerDict(initial_config, config')
    /\ UNCHANGED <<instanceVars, argVars, naiveVars, ortVars, advisorVars, appVars>>

\* lines 169-184: one iteration of the extra-hours loop
RelaxDurationAttempt ==
    /\ rpc = "duration"
    /\ LET extra_hours == ExtraHours[locals.i]
           cfg == ExtendHours(config, locals.original_max_hours,
                              locals.original_close_hour, locals.depot_open, extra_hours)
       IN  /\ config' = cfg
           /\ \E solution \in TrySolve(cfg) :
                /\ calls' = Append(calls, CallRecord("duration", cfg, solution))
                /\ IF Succeeded(solution)
                   THEN /\ returned' = Return(solution, cfg,
                               [relaxed |-> TRUE, capacity_factor |-> None,
                                new_capacity |-> cfg.vehicle_capacity,
                                max_route_hours |-> cfg.max_route_duration_hours,
                                depot_close_hour |-> cfg.depot_close_hour])
                        /\ rpc' = "returned"
                        /\ UNCHANGED locals
                   ELSE /\ UNCHANGED returned
                        /\ IF locals.i < Len(ExtraHours)
                           THEN /\ locals' = [locals EXCEPT !.i = locals.i + 1]
                                /\ UNCHANGED rpc
                           ELSE /\ rpc' = "final"
                                /\ UNCHANGED locals
    /\ initial_config' = CallerDict(initial_config, config')
    /\ UNCHANGED <<instanceVars, argVars, naiveVars, ortVars, advisorVars, appVars>>

\* lines 186-205: the last resort
RelaxFinalAttempt ==
    /\ rpc = "final"
    /\ LET disabled == DisableConstraints(config)
           cfg == ExtendHours(disabled, locals.original_max_hours,
                              locals.original_close_hour, locals.depot_open, 6)
       IN  /\ config' = cfg
           /\ \E solution \in TrySolve(cfg) :
                /\ calls' = Append(calls, CallRecord("final", cfg, solution))
                /\ returned' = Return(solution, cfg, FinalInfo(solution, cfg))
    /\ rpc' = "returned"
    /\ initial_config' = CallerDict(initial_config, config')
    /\ UNCHANGED locals
    /\ UNCHANGED <<instanceVars, argVars, naiveVars, ortVars, advisorVars, appVars>>

\* the configuration dictionaries with the given capacities, maximum route
\* hours and depot closing hours
ConfigsWith(capacities, max_hours, close_hours) ==
    { [n_vehicles |-> nv,
       vehicle_capacity |-> cap,
       use_capacity |-> uc,
       max_route_duration_hours |-> hours,
       depot_open_hour |-> 8,
       depot_close_hour |-> close,
       depot_time_window |-> <<Fx(8 * 60), Fx(close * 60)>>,
       use_time_windows |-> OrtUseTimeWindows,
       first_solution_strategy |-> "PATH_CHEAPEST_ARC",
       local_search_metaheuristic |-> "GUIDED_LOCAL_SEARCH",
       time_limit_seconds |-> 30] :
      nv \in 1 .. MaxVehicles, cap \in capacities, uc \in BOOLEAN,
      hours \in max_hours, close \in close_hours }

\* the configuration dictionary as the hosting application fills it
Configs == ConfigsWith(CapacityValues, {10, 12}, {18, 22})

InitRelax ==
    /\ InitInstance(RelaxStopTables)
    /\ initial_config \in Configs
    /\ config = NoResult
    /\ rpc = "call"
    /\ locals = NoResult
    /\ calls = <<>>
    /\ returned = NoResult
    /\ n_vehicles = 0
    /\ vehicle_capacity = None
    /\ max_route_duration_hours = None
    /\ depot_time_window = <<0, 0>>
    /\ InitSearchDefaults
    /\ InitNaiveIdle
    /\ InitOrtIdle
    /\ InitAdvisorIdle
    /\ InitAppIdle

NextRelax ==
    \/ RelaxCall
    \/ RelaxFirstAttempt
    \/ RelaxCapacityAttempt
    \/ RelaxDurationAttempt
    \/ RelaxFinalAttempt

SpecRelax == InitRelax /\ [][NextRelax]_vars

\* the dictionaries a caller of run_vrp_with_auto_relaxation can pass: the
\* capacity missing, zero, or 2.0 units
CallerConfigs == ConfigsWith({None, 0, Fx(2)}, {10}, {18, 22})

InitRelaxCaller ==
    /\ InitInstance(RelaxStopTables)
    /\ initial_config \in CallerConfigs
    /\ config = NoResult
    /\ rpc = "call"
    /\ locals = NoResult
    /\ calls = <<>>
    /\ returned = NoResult
    /\ n_vehicles = 0
    /\ vehicle_capacity = None
    /\ max_route_duration_hours = None
    /\ depot_time_window = <<0, 0>>
    /\ InitSearchDefaults
    /\ InitNaiveIdle
    /\ InitOrtIdle
    /\ InitAdvisorIdle
    /\ InitAppIdle

SpecRelaxCaller == InitRelaxCaller /\ [][NextRelax]_vars

-----------------------------------------------------------------------------
(* Properties of run_vrp_with_auto_relaxation. *)

NoErrorIn(solution) == solution.error = NoError

LastCall == calls[Len(calls)]

\* what the policy of the controller prescribes for the k-th invocation:
\* the stage, and the configuration values the stage is defined by
PolicyStep(stage, capacity, use_cap, hours, use_tw) ==
    [stage |-> stage, vehicle_capacity |-> capacity, use_capacity |-> use_cap,
     max_route_duration_hours |-> hours, use_time_windows |-> use_tw]

Policy(c0) ==
    <<PolicyStep("first", c0.vehicle_capacity, c0.use_capacity,
                 c0.max_route_duration_hours, c0.use_time_windows)>>
    \o (IF c0.use_capacity /\ c0.vehicle_capacity # None /\ c0.vehicle_capacity # 0
        THEN [k \in 1 .. 3 |->
                 PolicyStep("capacity",
                            IF k = 1 THEN (c0.vehicle_capacity * 3) \div 2
                            ELSE IF k = 2 THEN c0.vehicle_capacity * 2
                            ELSE c0.vehicle_capacity * 3,
                            TRUE, c0.max_route_duration_hours, c0.use_time_windows)]
        ELSE <<>>)
    \o [k \in 1 .. 3 |->
           PolicyStep("duration", c0.vehicle_capacity, c0.use_capacity,
                      c0.max_route_duration_hours + 2 * k, c0.use_time_windows)]
    \o <<PolicyStep("final", c0.vehicle_capacity, FALSE,
                    c0.max_route_duration_hours + 6, FALSE)>>

StepOf(call) ==
    PolicyStep(call.stage, call.config.vehicle_capacity, call.config.use_capacity,
               call.config.max_route_duration_hours, call.config.use_time_windows)

\* C2: the invocations follow the stages in their order ((1) the given
\* configuration, (2) capacity x1.5, x2.0, x3.0 when capacity is in use,
\* (3) duration +2h, +4h, +6h, (4) capacity and time windows switched off in
\* the configuration); no invocation follows a successful one, the controller
\* returns only after a success or after the last stage, and the solution it
\* returns is the one of the last invocation.
C2_StagesInOrderStopAtFirstSuccess ==
    LET policy == Policy(initial_config)
    IN  calls # <<>> =>
            /\ Len(calls) <= Len(policy)
            /\ \A i \in 1 .. Len(calls) : StepOf(calls[i]) = policy[i]
            /\ \A i \in 1 .. (Len(calls) - 1) : ~NoErrorIn(calls[i].solution)
            /\ NoErrorIn(LastCall.solution) =>
                   (rpc = "returned" /\ returned.solution = LastCall.solution)
            /\ rpc = "returned" =>
                   /\ returned.solution = LastCall.solution
                   /\ NoErrorIn(LastCall.solution) \/ Len(calls) = Len(policy)

\* a call that failed at the first stage and at two capacity attempts and
\* succeeded, and returned, at capacity x3.0
C2_Witness ==
    /\ rpc = "returned"
    /\ Len(calls) = 4
    /\ LastCall.stage = "capacity"
    /\ NoErrorIn(returned.solution)

\* a customer whose window closes before a vehicle that leaves the depot at
\* opening time can reach it
UnreachableCustomer(c0) ==
    \E c \in CustomerIndices(df) :
        /\ df[c].latest_time # None
        /\ c0.depot_time_window[1] + time_callback(depot_idx, c) > df[c].latest_time

\* C3: with a customer whose time window closes before it can be reached, the
\* controller succeeds in its final stage: the final invocation is made with
\* time-window and capacity enforcement disabled and returns no 'error'.
C3_FinalStageSucceedsWithoutWindows ==
    (rpc = "returned" /\ UnreachableCustomer(initial_config)) =>
        /\ LastCall.stage = "final"
        /\ ~LastCall.time_windows_enforced
        /\ ~LastCall.capacity_enforced
        /\ NoErrorIn(LastCall.solution)

\* what the code does for such a table: every invocation, the final one
\* included, still enforces the windows of the stop table and fails
C3_WindowsStayEnforced ==
    UnreachableCustomer(initial_config) =>
        \A i \in 1 .. Len(calls) :
            calls[i].time_windows_enforced /\ ~NoErrorIn(calls[i].solution)

\* capacity a is no more restrictive than capacity b; None is unlimited
CapacityAtLeast(a, b) == a = None \/ (b # None /\ a >= b)

HoursNeverDecrease ==
    \A i \in 1 .. (Len(calls) - 1) :
        /\ calls[i + 1].max_route_duration_hours >= calls[i].max_route_duration_hours
        /\ calls[i + 1].depot_time_window[2] >= calls[i].depot_time_window[2]

\* C4, as claimed: from one invocation to the next the effective capacity, the
\* maximum route duration and the depot closing time never decrease.
C4_ParametersNeverMoreRestrictive ==
    /\ HoursNeverDecrease
    /\ \A i \in 1 .. (Len(calls) - 1) :
           CapacityAtLeast(calls[i + 1].vehicle_capacity, calls[i].vehicle_capacity)

\* C4, amended: the maximum route duration and the depot closing time never
\* decrease; the effective capacity never decreases except at the step from
\* the last capacity attempt to the first duration attempt, where it is the
\* original capacity again.
C4_MonotoneExceptCapacityReset ==
    /\ HoursNeverDecrease
    /\ \A i \in 1 .. (Len(calls) - 1) :
           IF calls[i].stage = "capacity" /\ calls[i + 1].stage = "duration"
           THEN calls[i + 1].vehicle_capacity = calls[1].vehicle_capacity
           ELSE CapacityAtLeast(calls[i + 1].vehicle_capacity, calls[i].vehicle_capacity)

\* all eight invocations were made, the capacity stage among them
C4_Witness ==
    /\ rpc = "returned"
    /\ Len(calls) = 8
    /\ calls[4].stage = "capacity"
    /\ calls[5].vehicle_capacity < calls[4].vehicle_capacity

\* C5: one call of the controller invokes the optimizer at most
\* 1 + 3 + 3 + 1 = 8 times.
C5_AtMostEightInvocations == Len(calls) <= 8

\* the eighth invocation succeeded
C5_Witness ==
    /\ rpc = "returned"
    /\ Len(calls) = 8
    /\ NoErrorIn(returned.solution)

\* every optimizer invocation made so far returned an error
EveryCallFailed == \A i \in 1 .. Len(calls) : ~NoErrorIn(calls[i].solution)

\* the marker of line 205
AllFailedMarker == [relaxed |-> FALSE, all_failed |-> TRUE]

\* C11: when every optimizer invocation fails, the final one included, the
\* controller returns the result of the final-stage invocation (which carries
\* an error) together with {relaxed: False, all_failed: True}; and it returns
\* that marker in no other case.
C11_AllFailedMarkerIffEveryCallFailed ==
    rpc = "returned" =>
        /\ EveryCallFailed =>
               /\ LastCall.stage = "final"
               /\ returned.solution = LastCall.solution
               /\ ~NoErrorIn(returned.solution)
               /\ returned.relaxation_info = AllFailedMarker
        /\ returned.relaxation_info = AllFailedMarker => EveryCallFailed

\* the controller returned after a failure of every stage, the capacity stage
\* included
C11_Witness ==
    /\ rpc = "returned"
    /\ EveryCallFailed
    /\ Len(calls) = 8
    /\ returned.relaxation_info = AllFailedMarker

\* C12: run_vrp_with_auto_relaxation never modifies the caller's
\* initial_config, on any path: no step of the controller changes it (every
\* relaxation is applied to the controller's own copy).
C12_InitialConfigNeverModified == [][initial_config' = initial_config]_vars

\* the controller has returned after relaxing capacity, duration and depot
\* closing hour and disabling both constraints on its copy
C12_Witness ==
    /\ rpc = "returned"
    /\ Len(calls) = 8
    /\ config # initial_config
    /\ config.use_capacity # initial_config.use_capacity
    /\ config.max_route_duration_hours # initial_config.max_route_duration_hours

-----------------------------------------------------------------------------
(* Properties of the argument validation of run_ortools_solution. *)

\* C13: run_ortools_solution called with fewer than two stops, or with fewer
\* than one vehicle, returns a result with empty routes and route details, zero
\* totals, n_vehicles_used = 0 and an error message that names the cause (the
\* stops or the vehicles), without having set up a search.
C13_EarlyReturnOnTooFewStopsOrVehicles ==
    (ort_pc = "done" /\ (LenDf(df) < 2 \/ n_vehicles < 1)) =>
        /\ ort_result.routes = <<>>
        /\ ort_result.route_details = <<>>
        /\ ort_result.total_distance = 0
        /\ ort_result.total_time = 0
        /\ ort_result.n_vehicles_used = 0
        /\ \/ LenDf(df) < 2 /\ ort_result.error = "Not enough stops to build a route."
           \/ n_vehicles < 1 /\ ort_result.error = "Number of vehicles must be at least 1."
        /\ search_parameters = NoResult

\* the optimizer has returned on a table that holds the depot alone
C13_Witness ==
    /\ ort_pc = "done"
    /\ LenDf(df) = 1
    /\ n_vehicles >= 1
    /\ ort_result.error = "Not enough stops to build a route."

-----------------------------------------------------------------------------
(* The optimizer alone, called with each metaheuristic tag. *)

\* the tags the hosting application offers, the empty tag and an unknown one
SearchTags ==
    {"GUIDED_LOCAL_SEARCH", "TABU_SEARCH", "SIMULATED_ANNEALING", "None", "", "GREEDY_DESCENT"}

TimeLimits == {10, 30}

InitOrtools ==
    /\ InitInstance(RelaxStopTables \cup ShortTables)
    /\ n_vehicles \in 0 .. MaxVehicles
    /\ vehicle_capacity \in {None, Fx(5)}
    /\ max_route_duration_hours \in OrtDurationValues
    /\ depot_time_window \in DepotWindows
    /\ first_solution_strategy \in {"PATH_CHEAPEST_ARC", "NEAREST"}
    /\ local_search_metaheuristic \in SearchTags
    /\ time_limit_seconds \in TimeLimits
    /\ ort_pc = "call"
    /\ ort_result = NoResult
    /\ search_parameters = NoResult
    /\ InitNaiveIdle
    /\ InitRelaxIdle
    /\ InitAdvisorIdle
    /\ InitAppIdle

SpecOrtools == InitOrtools /\ [][OrtoolsRun]_vars

\* the optimizer has returned from a call that passed the argument validation
OrtSearched == ort_pc = "done" /\ OrtEarlyError(n_vehicles) = NoError

\* C14: whatever the metaheuristic tag ('GUIDED_LOCAL_SEARCH', 'TABU_SEARCH',
\* 'SIMULATED_ANNEALING', 'None' or an unknown one), the search
\* run_ortools_solution starts carries the configured time_limit_seconds as
\* its time limit.
C14_TimeLimitAppliedForEveryTag ==
    OrtSearched => search_parameters.time_limit_seconds = time_limit_seconds

\* the same statement for the tags that select a metaheuristic
C14_TimeLimitAppliedWhenSelected ==
    (OrtSearched /\ MetaheuristicSelected(local_search_metaheuristic)) =>
        search_parameters.time_limit_seconds = time_limit_seconds

-----------------------------------------------------------------------------
(* Further properties of run_naive_solution. *)

\* run_naive_solution has returned from a call that passed the argument check
NaiveRan == pc = "done" /\ LenDf(df) >= 2 /\ n_vehicles >= 1

\* the stops that appear in a route of the result
PlacedStops(result) ==
    UNION { {result.routes[i][k] : k \in InnerPositions(result.routes[i])} :
            i \in 1 .. Len(result.routes) }

\* the sum of n_stops over the route details of the result
StopsCounted(result) ==
    SumSeq([i \in 1 .. Len(result.route_details) |-> result.route_details[i].n_stops])

\* C15: when run_naive_solution (n >= 2 stops, n_vehicles >= 1) leaves stops
\* unplaced, the result carries no error, the unplaced stops appear in no route
\* and the sum of n_stops over route_details is strictly less than the number
\* of non-depot stops; when it places every stop the sum equals that number, so
\* the comparison detects incompleteness.
C15_UnplacedStopsOmittedWithoutError ==
    NaiveRan =>
        /\ naive_result.error = NoError
        /\ unvisited \cap PlacedStops(naive_result) = {}
        /\ unvisited # {} => StopsCounted(naive_result) < Cardinality(CustomerIndices(df))
        /\ unvisited = {} => StopsCounted(naive_result) = Cardinality(CustomerIndices(df))

\* a result with one customer on a route and another one left unplaced
C15_Witness ==
    /\ NaiveRan
    /\ unvisited # {}
    /\ StopsCounted(naive_result) = 1

\* the scenario of C16: run_naive_solution has returned from a call with
\* vehicle capacity 5, two customers of demand 3 each, at least one vehicle
\* and no maximum route duration
CapacityFiveDemandThree ==
    /\ NaiveRan
    /\ vehicle_capacity = Fx(5)
    /\ max_route_duration_hours = None
    /\ Cardinality(CustomerIndices(df)) = 2
    /\ \A c \in CustomerIndices(df) : df[c].demand = Fx(3)

\* no route of the result holds more than one customer
NoRouteHoldsBoth == \A i \in 1 .. Len(naive_result.routes) : Len(naive_result.routes[i]) <= 3

\* the result has exactly k used routes, each with one customer
UsedRoutesOfOneCustomer(k) ==
    /\ Len(naive_result.routes) = k
    /\ \A i \in 1 .. k : Len(naive_result.routes[i]) = 3
    /\ naive_result.n_vehicles_used = k

\* C16 as stated: with capacity 5 and two customers of demand 3 each,
\* run_naive_solution never puts both on one route; with two or more vehicles
\* it returns two used routes of one customer each, and with one vehicle the
\* result carries an error.
C16_SplitOrErrorWithOneVehicle ==
    CapacityFiveDemandThree =>
        /\ NoRouteHoldsBoth
        /\ n_vehicles >= 2 => UsedRoutesOfOneCustomer(2)
        /\ n_vehicles = 1 => naive_result.error # NoError

\* C16, amended: with capacity 5, two customers of demand 3 each and no maximum
\* route duration, run_naive_solution never puts both on one route; with two or
\* more vehicles it returns two used routes of one customer each and no error;
\* with one vehicle it returns one used route with one customer and no error,
\* the other customer being left out of the result.
C16_SplitOrOmitWithOneVehicle ==
    CapacityFiveDemandThree =>
        /\ NoRouteHoldsBoth
        /\ naive_result.error = NoError
        /\ n_vehicles >= 2 => UsedRoutesOfOneCustomer(2) /\ unvisited = {}
        /\ n_vehicles = 1 =>
               /\ UsedRoutesOfOneCustomer(1)
               /\ Cardinality(unvisited) = 1
               /\ StopsCounted(naive_result) = 1

\* the scenario with one vehicle: one customer is on the route, the other is not
C16_Witness ==
    /\ CapacityFiveDemandThree
    /\ n_vehicles = 1
    /\ Len(naive_result.routes) = 1
    /\ unvisited # {}

\* the tour <<depot, a, b, depot>> ends within the maximum route duration and
\* before the depot closes, when a maximum route duration is configured
TourFits(a, b) ==
    LET tour == <<depot_idx, a, b, depot_idx>>
        duration == RouteTravelTime(tour) + df[a].service_time + df[b].service_time
    IN  use_duration =>
            /\ depot_time_window[1] + duration <= depot_time_window[2]
            /\ duration <= max_duration_minutes

\* the scenario of C17: run_naive_solution has returned from a call with one
\* vehicle, no capacity and a depot and two customers a, b without time
\* windows, a on the way from the depot to b
OnTheWay(a, b) ==
    /\ NaiveRan
    /\ n_vehicles = 1
    /\ vehicle_capacity = None
    /\ CustomerIndices(df) = {a, b}
    /\ a # b
    /\ \A c \in {a, b} : df[c].earliest_time = None /\ df[c].latest_time = None
    /\ distance_matrix[depot_idx][a] < distance_matrix[depot_idx][b]
    /\ distance_matrix[depot_idx][a] + distance_matrix[a][b] = distance_matrix[depot_idx][b]
    /\ TourFits(a, b)

\* C17: for a depot and two customers A and B on a line, d(depot,A) <
\* d(depot,B) and d(depot,A) + d(A,B) = d(depot,B), one vehicle, no capacity
\* and no time windows, the result of run_naive_solution has exactly one used
\* route, [depot, A, B, depot], and total_distance = 2 x d(depot,B).
C17_NearestFirstOnALine ==
    \A a, b \in CustomerIndices(df) :
        OnTheWay(a, b) =>
            /\ naive_result.routes = << <<depot_idx, a, b, depot_idx>> >>
            /\ naive_result.n_vehicles_used = 1
            /\ naive_result.total_distance = 2 * distance_matrix[depot_idx][b]

\* the scenario, with the farther customer numbered before the nearer one
C17_Witness ==
    \E a, b \in CustomerIndices(df) :
        /\ OnTheWay(a, b)
        /\ b < a
        /\ naive_result.total_distance = Fx(240)

-----------------------------------------------------------------------------
(* The uncapacitated fallback of both solvers. *)

\* the stop tables whose demand column is entirely zero
ZeroDemandTables == {t \in CanonicalStopTables : DemandSum(t) = 0}

InitFallback == InitSolversOn(ZeroDemandTables)

SpecFallback == InitFallback /\ [][NextSolvers]_vars

\* a vehicle capacity is supplied and every stop has demand zero
CapacityWithoutDemand == vehicle_capacity # None /\ DemandSum(df) = 0

\* C18: when every stop has demand zero and a vehicle capacity is supplied,
\* capacity is not enforced and the result is the one of the call with
\* vehicle_capacity = None: run_naive_solution performs no capacity check (it
\* accepts and rejects each candidate as the call without capacity does, and
\* its load counter stays untouched), run_ortools_solution adds no capacity
\* dimension and, when it is called, its possible results are those of the
\* call without capacity.
C18_ZeroDemandRunsUncapacitated ==
    (CapacityWithoutDemand /\ LenDf(df) >= 2 /\ n_vehicles >= 1) =>
        /\ ~use_capacity
        /\ current_capacity = 0
        /\ pc = "while" =>
               \A s \in unvisited :
                   CandidateFeasibleWith(vehicle_capacity, route[Len(route)], s)
                       = CandidateFeasibleWith(None, route[Len(route)], s)
        /\ ~OrtUseCapacity(vehicle_capacity)
        /\ ort_pc = "call" =>
               OrtoolsOutcomes(n_vehicles, vehicle_capacity,
                               max_route_duration_hours, depot_time_window)
                 = OrtoolsOutcomes(n_vehicles, None,
                                   max_route_duration_hours, depot_time_window)

\* both solvers have returned routes in a call that supplied a capacity for a
\* table without demand
C18_Witness ==
    /\ CapacityWithoutDemand
    /\ NaiveDone
    /\ OrtDone
    /\ Len(naive_result.routes) >= 1
    /\ Len(ort_result.routes) >= 1

-----------------------------------------------------------------------------
(* auto_configure_parameters: the parameter advisor.  Of its table it reads   *)
(* the number of rows, the demand column (here the same demand for every     *)
(* stop, or None when the column is absent) and whether a time window is     *)
(* present.                                                                   *)

MaxStopCount == 1300

AdvisorDemands == {None, 0, Fx(2)}

AdvisorTables ==
    [n_stops : 0 .. MaxStopCount, demand : AdvisorDemands, has_time_windows : BOOLEAN]

Max(a, b) == IF a > b THEN a ELSE b

\* line 63 without the "+ 0.5"
SuggestedVehiclesMutant(n_stops) == Max(1, Min(50, n_stops \div 25))

\* "max(1, min(50, int((n_stops / 25.0) + 0.5)))": int() truncates n/25 + 1/2,
\* which is (2n + 25)/50
SuggestedVehicles(n_stops) == Max(1, Min(50, (2 * n_stops + 25) \div 50))

\* 10**9, "effectively unlimited"
Unlimited == 1000000000

\* lines 43-51 and 66-73
SuggestedCapacity(t) ==
    LET has_column == t.demand # None
        total_demand == IF has_column THEN t.demand * t.n_stops ELSE Fx(t.n_stops)
        max_demand == IF has_column THEN t.demand ELSE Fx(1)
        has_demand_data == has_column /\ total_demand > 0
        base_capacity == (total_demand * 30) \div Max(t.n_stops, 1)
    IN  IF has_demand_data
        THEN [vehicle_capacity |-> Max((max_demand * 3) \div 2, base_capacity),
              use_capacity |-> TRUE]
        ELSE [vehicle_capacity |-> Fx(Unlimited), use_capacity |-> FALSE]

auto_configure_parameters(t) ==
    [n_vehicles |-> SuggestedVehicles(t.n_stops),
     vehicle_capacity |-> SuggestedCapacity(t).vehicle_capacity,
     max_route_duration_hours |-> IF t.has_time_windows THEN 10 ELSE 9,
     depot_open_hour |-> 8,
     depot_close_hour |-> IF t.has_time_windows THEN 20 ELSE 18,
     speed_kmh |-> 45,
     use_capacity |-> SuggestedCapacity(t).use_capacity,
     use_time_windows |-> t.has_time_windows]

AutoConfigure ==
    /\ advised = NoResult
    /\ advised' = auto_configure_parameters(advisor_df)
    /\ UNCHANGED advisor_df
    /\ UNCHANGED <<instanceVars, argVars, naiveVars, ortVars, relaxVars, appVars>>

InitAdvisor ==
    /\ advisor_df \in AdvisorTables
    /\ advised = NoResult
    /\ InitInstance({<<>>})
    /\ n_vehicles = 0
    /\ vehicle_capacity = None
    /\ max_route_duration_hours = None
    /\ depot_time_window = <<0, 0>>
    /\ InitSearchDefaults
    /\ InitNaiveIdle
    /\ InitOrtIdle
    /\ InitRelaxIdle
    /\ InitAppIdle

SpecAdvisor == InitAdvisor /\ [][AutoConfigure]_vars

Advised == advised # NoResult

\* C19 as stated: for every stop count n >= 0 the suggested n_vehicles is
\* ceil(n / 25) clamped to [1, 50]: it lies in 1..50, above 1 only if
\* n > 25 (n_vehicles - 1), below 50 only if n <= 25 n_vehicles.
C19_VehiclesAreCeilingClamped ==
    Advised =>
        LET n == advisor_df.n_stops
            v == advised.n_vehicles
        IN  /\ v \in 1 .. 50
            /\ v > 1 => n > 25 * (v - 1)
            /\ v < 50 => n <= 25 * v

\* C19, amended: for every stop count n >= 0 the suggested n_vehicles is n / 25
\* rounded to the nearest integer (a half rounds up) and clamped to [1, 50]:
\* it lies in 1..50, above 1 only if n/25 >= n_vehicles - 1/2, below 50 only
\* if n/25 < n_vehicles + 1/2.
C19_VehiclesAreNearestClamped ==
    Advised =>
        LET n == advisor_df.n_stops
            v == advised.n_vehicles
        IN  /\ v \in 1 .. 50
            /\ v > 1 => 2 * n >= 50 * v - 25
            /\ v < 50 => 2 * n < 50 * v + 25

\* 37 stops are advised one vehicle, where the ceiling is two
C19_Witness ==
    /\ Advised
    /\ advisor_df.n_stops = 37
    /\ advised.n_vehicles = 1

-----------------------------------------------------------------------------
(* build_distance_matrix and build_time_matrix on tables of 0 to NumStops     *)
(* stops that lie on a grid around the depot.                                 *)

Latitudes == {-1, 0, 1}

Longitudes == {0, 1, 2}

PointRow(lat, lon) ==
    [is_depot |-> FALSE, demand |-> 0, service_time |-> 0,
     earliest_time |-> None, latest_time |-> None, lat |-> lat, lon |-> lon]

PointTables ==
    UNION { [0 .. (n - 1) -> {PointRow(lat, lon) : lat \in Latitudes, lon \in Longitudes}] :
            n \in 0 .. NumStops }

\* a matrix that is not built yet (the matrices are indexed from 0, so it
\* equals none of them)
NoMatrix == <<None>>

BuildDistanceMatrix ==
    /\ distance_matrix = NoMatrix
    /\ distance_matrix' = build_distance_matrix(df)
    /\ time_matrix' = build_time_matrix(distance_matrix', SpeedKmh)
    /\ UNCHANGED df
    /\ UNCHANGED <<argVars, naiveVars, ortVars, relaxVars, advisorVars, appVars>>

InitMatrix ==
    /\ df \in PointTables
    /\ distance_matrix = NoMatrix
    /\ time_matrix = NoMatrix
    /\ n_vehicles = 0
    /\ vehicle_capacity = None
    /\ max_route_duration_hours = None
    /\ depot_time_window = <<0, 0>>
    /\ InitSearchDefaults
    /\ InitNaiveIdle
    /\ InitOrtIdle
    /\ InitRelaxIdle
    /\ InitAdvisorIdle
    /\ InitAppIdle

SpecMatrix == InitMatrix /\ [][BuildDistanceMatrix]_vars

MatrixBuilt == distance_matrix # NoMatrix

\* C20: the matrix returned by build_distance_matrix for N stops is N x N,
\* every diagonal entry is zero, and entry [i, j] equals entry [j, i] for all
\* positions i, j.
C20_DistanceMatrixSquareZeroDiagonalSymmetric ==
    MatrixBuilt =>
        LET positions == 0 .. (LenDf(df) - 1)
        IN  /\ DOMAIN distance_matrix = positions
            /\ \A i \in positions :
                  /\ DOMAIN distance_matrix[i] = positions
                  /\ distance_matrix[i][i] = 0
                  /\ \A j \in positions : distance_matrix[i][j] = distance_matrix[j][i]

\* the matrix of NumStops stops, two of which differ in latitude and in longitude
C20_Witness ==
    /\ MatrixBuilt
    /\ LenDf(df) = NumStops
    /\ \E i, j \in DOMAIN df :
          /\ df[i].lat # df[j].lat
          /\ df[i].lon > df[j].lon
          /\ distance_matrix[i][j] > Fx(StepKm)

-----------------------------------------------------------------------------
(* Further properties of run_vrp_with_auto_relaxation. *)

\* the initial configuration uses capacity: the flag is set and the capacity
\* is neither missing nor zero
InitialCapacityInUse ==
    /\ initial_config.use_capacity
    /\ initial_config.vehicle_capacity # None
    /\ initial_config.vehicle_capacity # 0
    /\ initial_config.vehicle_capacity # 0

\* the positions in calls of the invocations of a stage
CallsOfStage(stage) == {i \in 1 .. Len(calls) : calls[i].stage = stage}

\* C21: the capacity stage is entered only when capacity is in use; its three
\* attempts (invocations 2, 3 and 4) pass the original capacity times 1.5, 2.0
\* and 3.0, each factor applied to the original value; and when all three fail
\* the first duration-stage attempt runs with the original capacity again, in
\* the configuration and in the call.
C21_CapacityFactorsOnOriginalThenReset ==
    rpc # "idle" =>
        LET original == initial_config.vehicle_capacity
        IN  /\ CallsOfStage("capacity") # {} => InitialCapacityInUse
            /\ CallsOfStage("capacity") \subseteq {2, 3, 4}
            /\ (2 \in CallsOfStage("capacity")) => 2 * calls[2].vehicle_capacity = 3 * original
            /\ (3 \in CallsOfStage("capacity")) => calls[3].vehicle_capacity = 2 * original
            /\ (4 \in CallsOfStage("capacity")) => calls[4].vehicle_capacity = 3 * original
            /\ (4 \in CallsOfStage("capacity") /\ Len(calls) >= 5) =>
                   /\ calls[5].stage = "duration"
                   /\ calls[5].config.vehicle_capacity = original
                   /\ calls[5].vehicle_capacity = original
            /\ (rpc = "duration" /\ InitialCapacityInUse) => config.vehicle_capacity = original

\* the three capacity attempts failed and the first duration attempt was made
C21_Witness ==
    /\ Len(calls) >= 5
    /\ CallsOfStage("capacity") = {2, 3, 4}
    /\ calls[5].stage = "duration"
    /\ calls[4].vehicle_capacity = Fx(15)

\* the number of duration-stage invocations among the first i invocations
DurationAttempt(i) == Cardinality({j \in CallsOfStage("duration") : j <= i})

\* min(23, hour)
CappedAt23(hour) == IF hour > 23 THEN 23 ELSE hour

\* invocation i ran with the original duration and closing hour extended by
\* extra hours, and with the depot window of that closing hour
ExtendedBy(i, extra) ==
    LET close == CappedAt23(initial_config.depot_close_hour + extra)
    IN  /\ calls[i].max_route_duration_hours = initial_config.max_route_duration_hours + extra
        /\ calls[i].config.max_route_duration_hours = calls[i].max_route_duration_hours
        /\ calls[i].config.depot_close_hour = close
        /\ calls[i].depot_time_window =
               <<Fx(initial_config.depot_open_hour * 60), Fx(close * 60)>>
        /\ calls[i].depot_time_window[2] = Fx(calls[i].config.depot_close_hour * 60)

\* C22: the k-th attempt of the duration stage (k = 1, 2, 3) uses maximum
\* route duration = original + 2k hours, depot closing hour = min(23, original
\* closing hour + 2k) and the depot window (opening hour x 60, that closing
\* hour x 60); the final stage keeps the values of k = 3; in each of these
\* attempts the window passed to the optimizer agrees with the depot_close_hour
\* of the configuration.
C22_DurationStageValues ==
    rpc # "idle" =>
        /\ \A i \in CallsOfStage("duration") :
               /\ DurationAttempt(i) \in 1 .. 3
               /\ ExtendedBy(i, 2 * DurationAttempt(i))
        /\ \A i \in CallsOfStage("final") : ExtendedBy(i, 6)

\* the third duration attempt and the final attempt were made from a closing
\* hour of 22, so that every extension was capped at 23
C22_Witness ==
    /\ CallsOfStage("final") # {}
    /\ Cardinality(CallsOfStage("duration")) = 3
    /\ initial_config.depot_close_hour = 22
    /\ LastCall.config.depot_close_hour = 23

\* a relaxation report with 'relaxed' = True
RelaxedReport(info) == "relaxed" \in DOMAIN info /\ info.relaxed

\* the capacity a configuration makes try_solve pass
PassedCapacity(cfg) == IF cfg.use_capacity THEN cfg.vehicle_capacity ELSE None

\* C23: run_vrp_with_auto_relaxation returns relaxation_info = None exactly
\* when the first attempt succeeds; on a success at a later stage it returns a
\* report with 'relaxed' = True; and with a returned solution that succeeded,
\* the returned configuration holds the capacity, use_capacity flag, maximum
\* duration and depot window that were passed to the invocation that produced
\* that solution.
C23_ReportAndConfigMatchTheSuccessfulCall ==
    rpc = "returned" =>
        /\ (returned.relaxation_info = NoRelaxation)
               <=> (Len(calls) = 1 /\ NoErrorIn(calls[1].solution))
        /\ (Len(calls) > 1 /\ NoErrorIn(returned.solution)) =>
               RelaxedReport(returned.relaxation_info)
        /\ NoErrorIn(returned.solution) =>
               /\ returned.solution = LastCall.solution
               /\ returned.config = LastCall.config
               /\ PassedCapacity(returned.config) = LastCall.vehicle_capacity
               /\ returned.config.max_route_duration_hours = LastCall.max_route_duration_hours
               /\ returned.config.depot_time_window = LastCall.depot_time_window

\* the controller returned the solution of the second capacity attempt
C23_Witness ==
    /\ rpc = "returned"
    /\ Len(calls) = 3
    /\ LastCall.stage = "capacity"
    /\ NoErrorIn(returned.solution)
    /\ returned.config.vehicle_capacity = 2 * initial_config.vehicle_capacity

\* what the i-th invocation was passed besides the capacity, the maximum route
\* duration and the depot time window
FixedArguments(i) ==
    <<calls[i].n_vehicles, calls[i].first_solution_strategy,
      calls[i].local_search_metaheuristic, calls[i].time_limit_seconds>>

\* C29: every optimizer invocation of one call of run_vrp_with_auto_relaxation
\* is passed the vehicle count, first-solution strategy, metaheuristic and time
\* limit of the first invocation, and the stop table, distance matrix and time
\* matrix that try_solve passes stay the same objects with the same contents
\* from the call to the return; capacity, maximum route duration and depot
\* time window are the only arguments that vary.
C29_OnlyCapacityDurationWindowVary ==
    /\ [](\A i \in 1 .. Len(calls) : FixedArguments(i) = FixedArguments(1))
    /\ [][rpc # "idle" => UNCHANGED <<df, distance_matrix, time_matrix>>]_vars

\* all eight invocations were made; the capacity, the maximum duration and
\* the depot window each differ between two of them
C29_Witness ==
    /\ rpc = "returned"
    /\ Len(calls) = 8
    /\ calls[2].vehicle_capacity # calls[1].vehicle_capacity
    /\ calls[5].max_route_duration_hours # calls[1].max_route_duration_hours
    /\ calls[5].depot_time_window # calls[1].depot_time_window
    /\ calls[8].n_vehicles = MaxVehicles

\* the invocations so far skip the capacity stage, pass no capacity, and the
\* second one is the attempt with two more hours
CapacityStageSkipped ==
    /\ Len(calls) <= 5
    /\ \A i \in 1 .. Len(calls) :
          /\ calls[i].stage # "capacity"
          /\ calls[i].vehicle_capacity = None
    /\ Len(calls) >= 2 =>
          /\ calls[2].stage = "duration"
          /\ calls[2].max_route_duration_hours =
                 initial_config.max_route_duration_hours + 2

C30_HoldsUnlessCapacityIsZero ==
    (rpc # "idle" /\ ~InitialCapacityInUse
        /\ ~(initial_config.use_capacity /\ initial_config.vehicle_capacity = 0)) =>
        CapacityStageSkipped

\* with use_capacity set and a capacity of zero the capacity stage is skipped
\* all the same: at most five invocations, the second the +2h attempt
C30_ZeroCapacitySkipsTheStage ==
    (rpc # "idle" /\ initial_config.use_capacity /\ initial_config.vehicle_capacity = 0) =>
        /\ Len(calls) <= 5
        /\ \A i \in 1 .. Len(calls) : calls[i].stage # "capacity"
        /\ Len(calls) >= 2 => calls[2].stage = "duration"

-----------------------------------------------------------------------------
(* Properties of the steps of run_naive_solution. *)

\* the position of stop s in the order o
PositionIn(o, s) == CHOOSE i \in 1 .. Len(o) : o[i] = s

\* a step that appends a stop to the route under construction
InsertStep == pc = "while" /\ pc' = "while" /\ route' # route

\* C24: the stop appended to the current route is a feasible unvisited stop
\* whose distance from the route's last stop is minimal among the feasible
\* unvisited stops, and among the feasible stops at that minimal distance it
\* is the one met first in the iteration order over the unvisited stops.
C24_NearestFeasibleFirstMetWinsTies ==
    [][InsertStep =>
           LET current_idx == route[Len(route)]
               best_next == route'[Len(route')]
               feasible == {s \in unvisited : CandidateFeasible(current_idx, s)}
               nearest == {s \in feasible :
                              \A t \in feasible :
                                  distance_matrix[current_idx][s]
                                      <= distance_matrix[current_idx][t]}
           IN  /\ route' = Append(route, best_next)
               /\ Range(scan_order') = unvisited
               /\ Len(scan_order') = Cardinality(unvisited)
               /\ best_next \in nearest
               /\ \A s \in nearest :
                      PositionIn(scan_order', best_next) <= PositionIn(scan_order', s)
    ]_vars

\* an unconstrained call met two customers at the same distance from the
\* depot, the higher-numbered one first, and appended that one
C24_Witness ==
    /\ pc = "while"
    /\ vehicle_capacity = None
    /\ max_route_duration_hours = None
    /\ Len(route) = 2
    /\ Len(scan_order) >= 2
    /\ scan_order[1] = route[2]
    /\ scan_order[1] > scan_order[2]
    /\ distance_matrix[route[1]][scan_order[1]] = distance_matrix[route[1]][scan_order[2]]

\* a step of the body of "while unvisited"
WhileStep == pc = "while" /\ vars' # vars

\* the step removed exactly one stop from unvisited and stayed in the loop
RemovesOneStop ==
    /\ unvisited' \subseteq unvisited
    /\ Cardinality(unvisited') = Cardinality(unvisited) - 1
    /\ routes' = routes
    /\ vehicle_id' = vehicle_id
    /\ pc' = "while"

\* the step closed the current route and left the loop
ClosesRoute ==
    /\ unvisited' = unvisited
    /\ Len(routes') = Len(routes) + 1
    /\ vehicle_id' = vehicle_id + 1
    /\ pc' = "for"

\* a step at the head of "for vehicle_id in range(n_vehicles)"
ForStep == pc = "for" /\ vars' # vars

\* C25: run_naive_solution terminates: every iteration of the inner loop
\* removes one stop from unvisited or closes the route, the outer loop leaves
\* exactly when unvisited is empty or n_vehicles routes were built, the call
\* eventually returns, and at the return of a routed call every non-depot stop
\* is assigned or all n_vehicles vehicles are used up.
C25_NaiveTerminates ==
    /\ [][WhileStep => (RemovesOneStop \/ ClosesRoute)]_vars
    /\ [][ForStep => /\ Len(routes) = vehicle_id
                     /\ vehicle_id <= n_vehicles
                     /\ (pc' = "metrics") <=>
                            (unvisited = {} \/ Len(routes) = n_vehicles)]_vars
    /\ [](pc = "done" /\ naive_result.error = NoError =>
              unvisited = {} \/ Len(routes) = n_vehicles)
    /\ <>(pc = "done")

\* a routed call returned with every vehicle used and a stop left unassigned
C25_Witness ==
    /\ pc = "done"
    /\ naive_result.error = NoError
    /\ n_vehicles = MaxVehicles
    /\ Len(routes) = n_vehicles
    /\ unvisited # {}

\* the time at which a vehicle that drives straight back to the depot after
\* arriving at the k-th entry of route r, waiting for its earliest time and
\* servicing it, is back
ReturnFrom(r, k) ==
    ClockArrival(r, k) + df[r[k]].service_time + time_matrix[r[k]][depot_idx]

WithinDepotLimits(return_time) ==
    /\ return_time <= depot_time_window[2]
    /\ return_time - depot_time_window[1] <= max_route_duration_hours * Fx(60)

StopsReturnInTime(r, positions) ==
    \A k \in positions : WithinDepotLimits(ReturnFrom(r, k))

\* C26: with a maximum route duration configured, every stop appended to a
\* route is one from which the vehicle, after arriving, waiting until the
\* earliest time and servicing, is back at the depot by its closing time and
\* no later than the maximum duration after its opening time; so every
\* returned route completes by depot closing and within the duration cap.
C26_RoutesReturnByClosingWithinCap ==
    use_duration =>
        /\ pc = "while" => StopsReturnInTime(route, 2 .. Len(route))
        /\ \A i \in 1 .. Len(routes) :
               StopsReturnInTime(routes[i], InnerPositions(routes[i]))
        /\ (pc = "done" /\ naive_result.error = NoError) =>
               \A i \in 1 .. Len(naive_result.routes) :
                   LET r == naive_result.routes[i]
                   IN  Len(r) > 2 => WithinDepotLimits(ReturnFrom(r, Len(r) - 1))

\* a time-limited call without a capacity returned a route that is back
\* exactly at the closing time or exactly at the cap, and left a customer
\* unassigned
C26_Witness ==
    /\ pc = "done"
    /\ use_duration
    /\ vehicle_capacity = None
    /\ naive_result.error = NoError
    /\ unvisited # {}
    /\ \E i \in 1 .. Len(routes) :
           /\ Len(routes[i]) >= 3
           /\ \/ ReturnFrom(routes[i], Len(routes[i]) - 1) = depot_time_window[2]
              \/ ReturnFrom(routes[i], Len(routes[i]) - 1) - depot_time_window[1]
                     = max_route_duration_hours * Fx(60)

\* route r leaves the depot and returns without a stop
EmptyRoute(r) == Len(r) = 2

\* in the list rs the routes with a stop come before the routes without
UsedRoutesFirst(rs) ==
    \A i, j \in 1 .. Len(rs) : (i < j /\ EmptyRoute(rs[i])) => EmptyRoute(rs[j])

\* C28: in every result of run_naive_solution (and in the list of closed
\* routes during the call) an empty route [depot, depot] is followed by empty
\* routes only; the vehicle_id values of route_details are 0, 1, ..., k-1 in
\* this order, k being n_vehicles_used; and there are at most n_vehicles routes.
C28_UsedRoutesArePrefixOfVehicles ==
    /\ UsedRoutesFirst(routes)
    /\ pc # "idle" => Len(routes) <= n_vehicles
    /\ (pc = "done" /\ naive_result.error = NoError) =>
           LET k == naive_result.n_vehicles_used
               details == naive_result.route_details
           IN  /\ UsedRoutesFirst(naive_result.routes)
               /\ Len(naive_result.routes) <= n_vehicles
               /\ Len(details) = k
               /\ \A i \in 1 .. k : details[i].vehicle_id = i - 1
               /\ \A i \in 1 .. k : ~EmptyRoute(naive_result.routes[i])
               /\ {details[i].vehicle_id : i \in 1 .. Len(details)} = 0 .. (k - 1)

\* a call with two vehicles returned a used route followed by an empty one
C28_Witness ==
    /\ pc = "done"
    /\ naive_result.error = NoError
    /\ Len(naive_result.routes) = 2
    /\ ~EmptyRoute(naive_result.routes[1])
    /\ EmptyRoute(naive_result.routes[2])
    /\ naive_result.n_vehicles_used = 1

-----------------------------------------------------------------------------
(* The hosting application (app.py).  Streamlit runs the script from top to
   bottom on every interaction: the data tab first, then show_model_setup,
   which keeps the working table and the cached matrices in the session
   state.  An action is one such pass with the interaction that caused it. *)

\* rows of the loaded tables: two to NumStops + 1 points on the depot's parallel
AppRows == NumStops + 1

AppLongitudes == {1, 2}

AppRawTables ==
    UNION { [0 .. (n - 1) -> {PointRow(0, lon) : lon \in AppLongitudes}] : n \in 2 .. AppRows }

\* the positions of the speed slider that are used
AppSpeeds == {30, 60}

\* normalize_dataframe with the default depot (the first row): the table with
\* its depot marked, or the error of a table with fewer than two customers
normalize_dataframe(t) ==
    LET normalized == [i \in DOMAIN t |-> [t[i] EXCEPT !.is_depot = (i = 0)]]
        n_customers == Cardinality({i \in DOMAIN normalized : ~normalized[i].is_depot})
    IN  IF n_customers < 2
        THEN [df |-> NoTable, error |-> "At least 2 customer stops are required"]
        ELSE [df |-> normalized, error |-> NoError]

\* config.get('max_stops_for_optimization', 500): no widget writes the key, so
\* it is the default; scaled to the tables of the model
max_stops == NumStops

\* config.get('sampling_strategy', 'Random Sample'): no widget writes the key
sampling_strategy == "Random Sample"

\* the elements of a set of indices in ascending order
IndexSeq(S) ==
    [i \in 1 .. Cardinality(S) |-> CHOOSE x \in S : Cardinality({y \in S : y < x}) = i - 1]

\* customer_df.sample(n=n, random_state=42): the same rows for the same table
\* on every pass (here the last n, the last first)
SampleSeed42(customers, n) == [i \in 1 .. n |-> customers[Len(customers) - i + 1]]

\* lines 1452-1486: the table the optimization runs on
WorkingSubset(t) ==
    LET n_total == LenDf(t)
        depots == IndexSeq({i \in DOMAIN t : t[i].is_depot})
        customers == IndexSeq({i \in DOMAIN t : ~t[i].is_depot})
        n_customers_needed == Max(1, max_stops - Len(depots))
        customer_subset ==
            IF Len(customers) > n_customers_needed
            THEN IF sampling_strategy = "Random Sample"
                 THEN SampleSeed42(customers, n_customers_needed)
                 ELSE SubSeq(customers, 1, n_customers_needed)
            ELSE customers
        kept == depots \o customer_subset
    IN  IF n_total > max_stops
        THEN [i \in 0 .. (Len(kept) - 1) |-> t[kept[i + 1]]]
        ELSE t

\* lines 1164-1165 left out: the matrices survive a normalization
ClearedOnNormalizeMutant(matrix) == matrix

\* "st.session_state.distance_matrix = None; st.session_state.time_matrix = None"
\* after a successful normalization
ClearedOnNormalize(matrix) == NoMatrix

\* show_model_setup up to the run button, on the session state given: the
\* time matrix follows the slider (1357-1361), the working table is stored
\* (1489), the matrices are dropped when its size changed (1492-1499) and
\* built when there are none (1502, build_matrices; built = FALSE is the
\* MemoryError of line 1207)
ModelSetup(normalized, dm, tm, working, size, speed, built) ==
    IF normalized = NoTable
    THEN [df |-> working, distance_matrix |-> dm, time_matrix |-> tm,
          working_df_size |-> size]
    ELSE LET df_subset == WorkingSubset(normalized)
             tm_speed == IF dm # NoMatrix THEN build_time_matrix(dm, speed) ELSE tm
             changed == dm # NoMatrix /\ size # LenDf(df_subset)
             dm_kept == IF changed THEN NoMatrix ELSE dm
             tm_kept == IF changed THEN NoMatrix ELSE tm_speed
             dm_built == build_distance_matrix(df_subset)
         IN  [df |-> df_subset,
              distance_matrix |->
                  IF dm_kept # NoMatrix THEN dm_kept
                  ELSE IF built THEN dm_built ELSE NoMatrix,
              time_matrix |->
                  IF dm_kept # NoMatrix THEN tm_kept
                  ELSE IF built THEN build_time_matrix(dm_built, speed) ELSE NoMatrix,
              working_df_size |-> LenDf(df_subset)]

\* the session state after the pass
SessionAfter(setup) ==
    /\ df' = setup.df
    /\ distance_matrix' = setup.distance_matrix
    /\ time_matrix' = setup.time_matrix
    /\ working_df_size' = setup.working_df_size

\* load_data (919-969): a file is uploaded or the synthetic table generated
AppLoadData ==
    /\ \E built \in BOOLEAN :
          SessionAfter(ModelSetup(normalized_df, distance_matrix, time_matrix, df,
                                  working_df_size, config_speed_kmh, built))
    /\ raw_df' \in AppRawTables
    /\ run_started' = NoResult
    /\ UNCHANGED <<normalized_df, config_speed_kmh>>
    /\ UNCHANGED <<argVars, naiveVars, ortVars, relaxVars, advisorVars>>

\* column_mapping_ui (1151-1170): "Validate & Normalize Data", then the rerun
AppNormalize ==
    /\ raw_df # NoTable
    /\ \E built \in BOOLEAN :
          LET result == normalize_dataframe(raw_df)
          IN  IF result.error # NoError
              THEN /\ UNCHANGED normalized_df
                   /\ SessionAfter(ModelSetup(normalized_df, distance_matrix, time_matrix,
                                              df, working_df_size, config_speed_kmh,
                                              built))
              ELSE /\ normalized_df' = result.df
                   /\ SessionAfter(ModelSetup(result.df,
                                              ClearedOnNormalize(distance_matrix),
                                              ClearedOnNormalize(time_matrix),
                                              df, working_df_size, config_speed_kmh,
                                              built))
    /\ run_started' = NoResult
    /\ UNCHANGED <<raw_df, config_speed_kmh>>
    /\ UNCHANGED <<argVars, naiveVars, ortVars, relaxVars, advisorVars>>

\* show_model_setup (1344-1361): the speed slider is moved
AppChangeSpeed ==
    /\ normalized_df # NoTable
    /\ \E speed \in AppSpeeds, built \in BOOLEAN :
          /\ config_speed_kmh' = speed
          /\ SessionAfter(ModelSetup(normalized_df, distance_matrix, time_matrix, df,
                                     working_df_size, speed, built))
    /\ run_started' = NoResult
    /\ UNCHANGED <<raw_df, normalized_df>>
    /\ UNCHANGED <<argVars, naiveVars, ortVars, relaxVars, advisorVars>>

\* show_model_setup (1504-1521): "Run Optimization" is pressed; the run starts
\* on the working table and the matrices of the session unless there is no
\* distance matrix
AppRunOptimization ==
    /\ normalized_df # NoTable
    /\ \E built \in BOOLEAN :
          SessionAfter(ModelSetup(normalized_df, distance_matrix, time_matrix, df,
                                  working_df_size, config_speed_kmh, built))
    /\ run_started' =
           IF distance_matrix' = NoMatrix THEN NoResult
           ELSE [working_df |-> df', distance_matrix |-> distance_matrix',
                 time_matrix |-> time_matrix', speed_kmh |-> config_speed_kmh]
    /\ UNCHANGED <<raw_df, normalized_df, config_speed_kmh>>
    /\ UNCHANGED <<argVars, naiveVars, ortVars, relaxVars, advisorVars>>

\* lines 895-917: the session state of a new session
InitApp ==
    /\ df = NoTable
    /\ distance_matrix = NoMatrix
    /\ time_matrix = NoMatrix
    /\ n_vehicles = 0
    /\ vehicle_capacity = None
    /\ max_route_duration_hours = None
    /\ depot_time_window = <<0, 0>>
    /\ InitSearchDefaults
    /\ InitNaiveIdle
    /\ InitOrtIdle
    /\ InitRelaxIdle
    /\ InitAdvisorIdle
    /\ InitAppIdle

NextApp ==
    \/ AppLoadData
    \/ AppNormalize
    \/ AppChangeSpeed
    \/ AppRunOptimization

SpecApp == InitApp /\ [][NextApp]_vars

RunStarted == run_started # NoResult

\* the matrices of the session are those of the table t at the speed set
MatricesOf(t, dm, tm, speed) ==
    /\ dm = build_distance_matrix(t)
    /\ tm = build_time_matrix(dm, speed)

====
